---- MODULE Spec2Model ----
(***************************************************************************)
(* Conversation-state routing of the Telegram <-> Salesforce relay.        *)
(*                                                                         *)
(* The repository holds two iterations of the same webhook application:    *)
(*   File.py : the original router (Contact lookup, gender/name            *)
(*             registration flow kept in user_states, thread status).      *)
(*   app.py  : the hardened router (Channel_User lookup, session cache     *)
(*             user_session_state, chat sessions, inline buttons).         *)
(* One of them is deployed; the variable "variant" records which.          *)
(*                                                                         *)
(* Texts are sequences of one-character strings so that strip, lower,      *)
(* split and the phone normalizers are computed as the code computes them. *)
(* Every CRM call of a handler has its own outcome: the CRM's answer or a  *)
(* failure (timeout, token failure, non-success status).                   *)
(***************************************************************************)
EXTENDS Integers, Sequences, FiniteSets, TLC

VARIABLES
    variant,              \* "File" or "app": the deployed iteration
    user_states,          \* File.py: chat -> registration / support state
    user_session_state,   \* app.py: chat -> session cache entry
    contacts,             \* CRM: Contact records, in creation order
    channel_users,        \* CRM: per chat, the Channel_User__c records (app.py)
    sessions,             \* CRM: Chat_Session__c records, in creation order
    last,                 \* log of the last handled request
    threads,              \* app.py under app.run: the request threads at work
    sf_auth,              \* app.py SalesforceAuth: the cached token and its lock
    rate_limiter,         \* app.py RateLimiter: ip -> time stamps, last_cleanup
    now                   \* time.time(), in seconds since the server started

vars == <<variant, user_states, user_session_state, contacts,
          channel_users, sessions, last, threads, sf_auth, rate_limiter, now>>

----------------------------------------------------------------------------
(* Bounds of the model *)

MaxContacts == 2
MaxSessions == 2
\* the functions alone: sessions in the CRM, varied digits of a phone number
MaxQueue == 3
\* the request threads of the Flask server
MaxThreads == 2
\* the replies of the chat platform that are held ready for one send_message
MaxReplies == 4
\* RATE_LIMIT_PER_MINUTE is read from the environment; the clock stops at MaxTime
RATE_LIMIT_PER_MINUTE == 2
MaxTime == 120
MaxVariedDigits == 2

Chats == {1, 2}
ClientIPs == {"10.0.0.1", "10.0.0.2"}
NoChat == 0

----------------------------------------------------------------------------
(* Text: sequences of one-character strings *)

Digits == {"0", "1", "2", "3", "4", "5", "6", "7", "8", "9"}

LowerLetters == {"a", "b", "c", "d", "e", "f", "g", "h", "i", "j", "k", "l", "m",
                 "n", "o", "p", "q", "r", "s", "t", "u", "v", "w", "x", "y", "z"}

UpperToLower == [A |-> "a", B |-> "b", C |-> "c", D |-> "d", E |-> "e", F |-> "f",
                 G |-> "g", H |-> "h", I |-> "i", J |-> "j", K |-> "k", L |-> "l",
                 M |-> "m", N |-> "n", O |-> "o", P |-> "p", Q |-> "q", R |-> "r",
                 S |-> "s", T |-> "t", U |-> "u", V |-> "v", W |-> "w", X |-> "x",
                 Y |-> "y", Z |-> "z"]

UpperLetters == DOMAIN UpperToLower

Whitespace == {" ", "\t", "\n"}

IsDigit(c) == c \in Digits

IsLetter(c) == c \in LowerLetters \cup UpperLetters

\* str.lower()
Lower(s) == [i \in 1..Len(s) |-> IF s[i] \in UpperLetters THEN UpperToLower[s[i]] ELSE s[i]]

RECURSIVE LStrip(_)
LStrip(s) == IF s # <<>> /\ Head(s) \in Whitespace THEN LStrip(Tail(s)) ELSE s

RECURSIVE RStrip(_)
RStrip(s) == IF s # <<>> /\ s[Len(s)] \in Whitespace
             THEN RStrip(SubSeq(s, 1, Len(s) - 1)) ELSE s

\* str.strip()
Strip(s) == RStrip(LStrip(s))

\* str.startswith(p)
StartsWith(s, p) == Len(s) >= Len(p) /\ SubSeq(s, 1, Len(p)) = p

\* str.endswith(p): the SOQL pattern LIKE '%p'
EndsWith(s, p) == Len(s) >= Len(p) /\ SubSeq(s, Len(s) - Len(p) + 1, Len(s)) = p

\* p in s
Contains(s, p) == \E i \in 1..(Len(s) - Len(p) + 1) : SubSeq(s, i, i + Len(p) - 1) = p

\* re.sub(r'[^\d]', '', s)
DigitsOnly(s) == SelectSeq(s, IsDigit)

\* str.split(' ', 1): split at the first space character, at most once
SplitOnce(s) ==
    IF \E i \in 1..Len(s) : s[i] = " "
    THEN LET i == CHOOSE k \in 1..Len(s) : s[k] = " " /\ \A j \in 1..(k - 1) : s[j] # " "
         IN  <<SubSeq(s, 1, i - 1), SubSeq(s, i + 1, Len(s))>>
    ELSE <<s>>

\* number of whitespace-separated tokens of s: len(s.split())
TokenCount(s) ==
    Cardinality({i \in 1..Len(s) :
                    /\ s[i] \notin Whitespace
                    /\ (i = 1 \/ s[i - 1] \in Whitespace)})

----------------------------------------------------------------------------
(* Phone numbers *)

PhonePrefixes == {<<>>, <<"0">>, <<"2", "5", "1">>, <<"+", "2", "5", "1">>}

\* the pattern ^(\+?251|0)?[97]\d{8}$
MatchesPhonePattern(s) ==
    \E p \in PhonePrefixes :
        /\ StartsWith(s, p)
        /\ Len(s) = Len(p) + 9
        /\ s[Len(p) + 1] \in {"9", "7"}
        /\ \A i \in (Len(p) + 2)..Len(s) : IsDigit(s[i])

\* the pattern ^0[79]\d{8}$
MatchesLocalMobile(s) ==
    /\ Len(s) = 10
    /\ s[1] = "0"
    /\ s[2] \in {"7", "9"}
    /\ \A i \in 3..10 : IsDigit(s[i])

\* File.py is_phone_number
is_phone_number_File(text) ==
    IF text = <<>> THEN FALSE ELSE MatchesPhonePattern(Strip(text))

\* a cleaner that puts a "0" in front of every number
clean_phone_number_always_prefix(phone) ==
    IF phone = <<>> THEN <<>>
    ELSE LET cleaned == DigitsOnly(phone)
             c2 == IF StartsWith(cleaned, <<"2", "5", "1">>)
                   THEN SubSeq(cleaned, 4, Len(cleaned)) ELSE cleaned
         IN  <<"0">> \o c2

\* File.py clean_phone_number
clean_phone_number(phone) ==
    IF phone = <<>> THEN <<>>
    ELSE LET cleaned == DigitsOnly(phone)
             c2 == IF StartsWith(cleaned, <<"2", "5", "1">>)
                   THEN SubSeq(cleaned, 4, Len(cleaned)) ELSE cleaned
         IN  IF ~StartsWith(c2, <<"0">>) THEN <<"0">> \o c2 ELSE c2

\* a sanitizer that keeps the country code
sanitize_phone_number_keeps_prefix(phone) ==
    IF phone = <<>> THEN <<>>
    ELSE LET cleaned == DigitsOnly(phone)
         IN  IF Len(cleaned) < 9 \/ Len(cleaned) > 12 THEN <<>>
             ELSE LET c3 == IF ~StartsWith(cleaned, <<"0">>) THEN <<"0">> \o cleaned
                            ELSE cleaned
                  IN  IF ~MatchesLocalMobile(c3) THEN <<>> ELSE c3

\* a sanitizer without the final validation
sanitize_phone_number_unchecked(phone) ==
    IF phone = <<>> THEN <<>>
    ELSE LET cleaned == DigitsOnly(phone)
         IN  IF Len(cleaned) < 9 \/ Len(cleaned) > 12 THEN <<>>
             ELSE LET c2 == IF StartsWith(cleaned, <<"2", "5", "1">>)
                            THEN SubSeq(cleaned, 4, Len(cleaned)) ELSE cleaned
                  IN  IF ~StartsWith(c2, <<"0">>) THEN <<"0">> \o c2 ELSE c2

\* app.py sanitize_phone_number
sanitize_phone_number(phone) ==
    IF phone = <<>> THEN <<>>
    ELSE LET cleaned == DigitsOnly(phone)
         IN  IF Len(cleaned) < 9 \/ Len(cleaned) > 12 THEN <<>>
             ELSE LET c2 == IF StartsWith(cleaned, <<"2", "5", "1">>)
                            THEN SubSeq(cleaned, 4, Len(cleaned))
                            ELSE IF StartsWith(cleaned, <<"+", "2", "5", "1">>)
                                 THEN SubSeq(cleaned, 5, Len(cleaned))
                                 ELSE cleaned
                      c3 == IF ~StartsWith(c2, <<"0">>) THEN <<"0">> \o c2 ELSE c2
                  IN  IF ~MatchesLocalMobile(c3) THEN <<>> ELSE c3

\* app.py is_phone_number
is_phone_number_app(text) ==
    IF text = <<>> THEN FALSE ELSE sanitize_phone_number(text) # <<>>

\* app.py TelegramBotManager.clean_phone_number
bot_clean_phone_number(phone) == sanitize_phone_number(phone)

\* the pattern ^[a-zA-Z0-9._%+-]+@[a-zA-Z0-9.-]+\.[a-zA-Z]{2,}$
MatchesEmailPattern(s) ==
    \E a \in 2..Len(s) : \E d \in (a + 2)..(Len(s) - 2) :
        /\ s[a] = "@"
        /\ s[d] = "."
        /\ \A i \in 1..(a - 1) :
              IsLetter(s[i]) \/ IsDigit(s[i]) \/ s[i] \in {".", "_", "%", "+", "-"}
        /\ \A i \in (a + 1)..(d - 1) :
              IsLetter(s[i]) \/ IsDigit(s[i]) \/ s[i] \in {".", "-"}
        /\ \A i \in (d + 1)..Len(s) : IsLetter(s[i])

\* File.py is_email
is_email(text) ==
    IF text = <<>> THEN FALSE ELSE MatchesEmailPattern(Strip(text))

----------------------------------------------------------------------------
(* Inbound message texts *)

T_start == <<"/", "s", "t", "a", "r", "t">>
T_phoneA_intl == <<"+", "2", "5", "1", "9", "1", "1", "1", "1", "1", "1", "1", "1">>
T_phoneB == <<"2", "5", "1", "7", "2", "2", "2", "2", "2", "2", "2", "2">>
T_email == <<"a", "@", "b", ".", "c", "o">>
T_Male == <<"M", "a", "l", "e">>
T_FEMALE == <<"F", "E", "M", "A", "L", "E">>
T_x == <<"x">>
T_name_two == <<"A", "b", " ", "K", "e">>
T_name_lead == <<" ", "A", "b">>
T_name_trail == <<"A", "b", " ">>
T_name_wide == <<"A", "b", " ", " ", "K", "e">>
T_menu == <<"m", "e", "n", "u">>
T_2 == <<"2">>
T_track == <<"t", "r", "a", "c", "k">>
T_new == <<"n", "e", "w">>
T_yes == <<"y", "e", "s">>
T_no == <<"n", "o">>
T_question == <<"t", "w", "i", "c", "e", "?">>
T_long == <<"m", "y", " ", "c", "a", "r", "d", " ", "w", "a", "s", " ", "c", "h", "a",
            "r", "g", "e", "d", " ", "x">>
T_nul_menu == <<"m", "e", "NUL", "n", "u">>

\* the texts sent to the File.py webhook
Texts_File == {T_start, T_phoneA_intl, T_phoneB, T_email,
               T_Male, T_FEMALE, T_x,
               T_name_two, T_name_lead, T_name_trail, T_name_wide,
               T_menu, T_2, T_track}

\* the texts sent to the app.py webhook
Texts_app == {T_start, T_phoneA_intl, T_phoneB, T_x,
              T_menu, T_nul_menu, T_track, T_new, T_yes, T_no,
              T_question, T_long}

\* the phone number stored on the Contact that exists before any chat starts
NormPhoneA == <<"0", "9", "1", "1", "1", "1", "1", "1", "1", "1">>

\* the email stored on that Contact
EmailA == <<"a", "@", "b", ".", "c", "o">>

\* File.py handle_registered_user: the text forwarded when option 2 is chosen
CustomerSelectedSupport ==
    <<"C", "u", "s", "t", "o", "m", "e", "r", " ", "s", "e", "l", "e", "c", "t", "e",
      "d", ":", " ", "C", "o", "n", "t", "a", "c", "t", " ", "C", "u", "s", "t", "o",
      "m", "e", "r", " ", "S", "u", "p", "p", "o", "r", "t">>

W_male == <<"m", "a", "l", "e">>
W_female == <<"f", "e", "m", "a", "l", "e">>
W_track == <<"t", "r", "a", "c", "k">>
W_support == <<"s", "u", "p", "p", "o", "r", "t">>
W_contact == <<"c", "o", "n", "t", "a", "c", "t">>

----------------------------------------------------------------------------
(* The log of one request *)

\* an outbound chat message: its kind, the queue position its text quotes
\* (0: none) and the queue position its sender had at hand (0: None)
Msg(kind) == [kind |-> kind, pos |-> 0, queue_position |-> 0]

MsgPos(kind, pos) == [kind |-> kind, pos |-> pos, queue_position |-> pos]

\* the entry of a chat that has no key in user_states
NoState == [type |-> "absent", step |-> "", phone |-> <<>>, gender |-> <<>>]

\* user_states[chat] = {'type': 'support_description', ...}
SupportState == [type |-> "support_description", step |-> "", phone |-> <<>>, gender |-> <<>>]

\* user_states[chat] = {'type': 'registration', 'phone': ..., 'step': ..., 'gender': ...}
RegState(step, phone, gender) ==
    [type |-> "registration", step |-> step, phone |-> phone, gender |-> gender]

\* the entry of a chat whose user_session_state is {} or missing
EmptyEntry == [kind |-> "empty", session_id |-> 0, session_status |-> ""]

\* {'in_session': True, 'conversation_id': ..., 'session_id': ..., 'session_status': ...}
InSession(id, status) == [kind |-> "in_session", session_id |-> id, session_status |-> status]

\* {'awaiting_confirmation': 'new_session', 'conversation_id': ...}
Awaiting == [kind |-> "awaiting", session_id |-> 0, session_status |-> ""]

\* a request thread that handles nothing
NoThread ==
    [pc |-> "idle", chat |-> NoChat, sid |-> 0, requested |-> FALSE, crm_ok |-> TRUE,
     none0 |-> FALSE, with |-> {}]

NoRequest ==
    [kind |-> "none", chat |-> NoChat, text |-> <<>>, data |-> "", registered |-> FALSE,
     lookup |-> "skipped", route |-> "none", thread |-> "none",
     state0 |-> NoState, cache0 |-> EmptyEntry,
     sent |-> <<>>, writes |-> <<>>, queries |-> <<>>]

----------------------------------------------------------------------------
(* The CRM as File.py uses it: Contact and Conversation_Thread__c *)

ThreadStates == {"none", "ActiveAssigned", "ActiveUnassigned", "Waiting for Agent", "Closed"}

\* the Contact records whose Telegram_Chat_ID__c is this chat
ContactsOfChat(ct, c) == {i \in DOMAIN ct : ct[i].chat = c}

\* File.py check_existing_contact: a record is returned only when the call
\* succeeds and a Contact carries the chat id; None otherwise
check_existing_contact(ct, c, ok) == ok /\ ContactsOfChat(ct, c) # {}

\* File.py find_contact_by_phone: Phone LIKE '%<digits>' LIMIT 1; the set of
\* records the query may return (empty: None)
find_contact_by_phone_File(ct, phone, ok) ==
    IF ok THEN {i \in DOMAIN ct : EndsWith(ct[i].phone, DigitsOnly(phone))} ELSE {}

\* File.py find_contact_by_email: Email = '<email>' LIMIT 1
find_contact_by_email(ct, email, ok) ==
    IF ok THEN {i \in DOMAIN ct : ct[i].email = email} ELSE {}

\* File.py update_contact_chat_id: PATCH Telegram_Chat_ID__c; 204 is success
update_contact_chat_id(ct, i, c, ok) ==
    IF ok THEN [ct EXCEPT ![i].chat = c] ELSE ct

\* the CRM accepts binding contact i to the chat: no other record is bound to it
CanBind(ct, i, c) == ContactsOfChat(ct, c) \subseteq {i}

\* outcomes of a create request: the record is created and the id returned,
\* the request is rejected, or the record is created and the answer is lost
CreateOutcomes == {"created", "rejected", "lost"}

\* File.py create_new_contact: POST sobjects/Contact; 201 is success
create_new_contact(ct, phone, c, outcome) ==
    IF outcome \in {"created", "lost"} /\ Len(ct) < MaxContacts /\ ContactsOfChat(ct, c) = {}
    THEN Append(ct, [phone |-> phone, email |-> <<>>, chat |-> c])
    ELSE ct

\* the id is returned only for a 201 answer that arrives
create_new_contact_returns_id(ct, c, outcome) ==
    outcome = "created" /\ Len(ct) < MaxContacts /\ ContactsOfChat(ct, c) = {}

----------------------------------------------------------------------------
(* File.py: the original router *)

\* what a File.py handler leaves behind: user_states, the Contact records,
\* the messages it sent and the CRM writes it attempted
FlowResult(us, ct, sent, writes) ==
    [us |-> us, ct |-> ct, sent |-> sent, writes |-> writes]

Routed(r, route, lookup) ==
    [us |-> r.us, ct |-> r.ct, sent |-> r.sent, writes |-> r.writes,
     route |-> route, lookup |-> lookup]

\* File.py send_to_salesforce -> forward_to_salesforce: one POST to the webhook
ForwardWrite(c, text, ok) ==
    [op |-> "forward", chat |-> c, text |-> text, session |-> 0, ok |-> ok]

\* File.py show_main_menu: looks the contact up again to greet by name
show_main_menu_File(ct, c, ok) ==
    IF check_existing_contact(ct, c, ok) THEN Msg("main_menu") ELSE Msg("welcome_prompt")

\* a name step that falls back to the gender step instead of staying
name_reprompt_back_to_gender(c, us, ct) ==
    {FlowResult([us EXCEPT ![c] = RegState("gender", us[c].phone, <<>>)], ct,
                <<Msg("gender_prompt")>>, <<>>)}

\* File.py handle_registration_flow, lines 529-533: fewer than two name parts
name_reprompt(c, us, ct) ==
    {FlowResult(us, ct, <<Msg("name_reprompt")>>, <<>>)}

\* a gender test that accepts the lower-case words only
is_gender_case_sensitive(message_text) ==
    message_text \in {W_male, W_female}

\* File.py handle_registration_flow, line 488: message_text.lower() in [...]
is_gender(message_text) ==
    Lower(message_text) \in {W_male, W_female}

\* a failed create that drops the registration state
create_failed_clears_state(c, us, ct, w) ==
    FlowResult([us EXCEPT ![c] = NoState], ct, <<Msg("create_error")>>, <<w>>)

\* File.py handle_registration_flow, lines 525-528: create_new_contact
\* returned None; user_states is left as it is
create_failed(c, us, ct, w) ==
    FlowResult(us, ct, <<Msg("create_error")>>, <<w>>)

\* File.py handle_registration_flow, for a chat whose state has a 'step'
handle_registration_flow(c, t, us, ct) ==
    LET state == us[c] IN
    IF state.step = "gender"
    THEN IF is_gender(t)
         THEN {FlowResult([us EXCEPT ![c] = RegState("name", state.phone, Lower(t))],
                          ct, <<Msg("name_prompt")>>, <<>>)}
         ELSE {FlowResult(us, ct, <<Msg("gender_prompt")>>, <<>>)}
    ELSE IF state.step = "name"
    THEN LET name_parts == SplitOnce(t) IN
         IF Len(name_parts) >= 2
         THEN {LET ct2 == create_new_contact(ct, state.phone, c, o)
                   w == [op |-> "create_contact", chat |-> c,
                         first_name |-> name_parts[1], last_name |-> name_parts[2],
                         phone |-> state.phone, gender |-> state.gender,
                         ok |-> create_new_contact_returns_id(ct, c, o)]
               IN  IF create_new_contact_returns_id(ct, c, o)
                   THEN FlowResult([us EXCEPT ![c] = NoState], ct2,
                                   <<show_main_menu_File(ct2, c, ok)>>, <<w>>)
                   ELSE create_failed(c, us, ct2, w)
               : o \in CreateOutcomes, ok \in BOOLEAN}
         ELSE name_reprompt(c, us, ct)
    ELSE {FlowResult(us, ct, <<>>, <<>>)}

\* File.py handle_registered_user: the menu selection for closed/new threads
registered_menu(c, t, us, ct) ==
    LET message_lower == Lower(Strip(t)) IN
    IF message_lower = <<"1">> \/ Contains(message_lower, W_track)
    THEN {Routed(FlowResult(us, ct, <<Msg("tracking_soon")>>, <<>>), "menu_track", "found")}
    ELSE IF \/ message_lower = <<"2">>
            \/ Contains(message_lower, W_support)
            \/ Contains(message_lower, W_contact)
    THEN {Routed(FlowResult([us EXCEPT ![c] = SupportState], ct,
                            <<Msg("describe_request")>>,
                            <<ForwardWrite(c, CustomerSelectedSupport, fwd)>>),
                 "menu_support", "found") : fwd \in BOOLEAN}
    ELSE {Routed(FlowResult(us, ct, <<show_main_menu_File(ct, c, ok)>>, <<>>),
                 "menu", "found") : ok \in BOOLEAN}

\* the routes on which get_thread_status is called
ThreadRoutes == {"forward_thread", "waiting_notice", "menu_track", "menu_support", "menu"}

\* File.py handle_registered_user
handle_registered_user(c, t, us, ct, th) ==
    IF us[c].type = "registration"
    THEN {Routed(r, "registration_flow", "found") : r \in handle_registration_flow(c, t, us, ct)}
    ELSE IF us[c].type = "support_description"
    THEN {Routed(FlowResult([us EXCEPT ![c] = NoState], ct,
                            <<Msg("request_received")>>, <<ForwardWrite(c, t, fwd)>>),
                 "support_description", "found") : fwd \in BOOLEAN}
    ELSE UNION {
        \* get_thread_status returns None when the call fails or no thread exists
        LET thread == IF okT THEN th ELSE "none" IN
        IF thread = "ActiveAssigned"
        THEN {Routed(FlowResult(us, ct, <<Msg("sent_to_agent")>>, <<ForwardWrite(c, t, fwd)>>),
                     "forward_thread", "found") : fwd \in BOOLEAN}
        ELSE IF thread = "ActiveUnassigned"
        THEN {Routed(FlowResult(us, ct, <<>>, <<ForwardWrite(c, t, fwd)>>),
                     "forward_thread", "found") : fwd \in BOOLEAN}
        ELSE IF thread = "Waiting for Agent"
        THEN {Routed(FlowResult(us, ct, <<Msg("still_waiting")>>, <<>>),
                     "waiting_notice", "found")}
        ELSE registered_menu(c, t, us, ct)
        : okT \in BOOLEAN}

\* a new registration that skips the gender step
start_registration_at_name(c, clean_phone, us, ct, lookup) ==
    {Routed(FlowResult([us EXCEPT ![c] = RegState("name", clean_phone, <<>>)],
                       ct, <<Msg("checking_phone"), Msg("name_prompt")>>, <<>>),
            "new_registration", lookup)}

\* File.py telegram_webhook, lines 639-652: no Contact has the phone
start_registration(c, clean_phone, us, ct, lookup) ==
    {Routed(FlowResult([us EXCEPT ![c] = RegState("gender", clean_phone, <<>>)],
                       ct, <<Msg("checking_phone"), Msg("gender_prompt")>>, <<>>),
            "new_registration", lookup)}

\* File.py telegram_webhook, lines 613-683: the chat has no Contact (or the
\* lookup returned None)
handle_unregistered(c, t, us, ct, lookup) ==
    IF us[c].type = "absent"
    THEN IF is_phone_number_File(t)
         THEN LET clean_phone == clean_phone_number(t) IN
              UNION {
                LET found == find_contact_by_phone_File(ct, clean_phone, okF) IN
                IF found # {}
                THEN {LET success == okU /\ CanBind(ct, i, c)
                          w == [op |-> "update_contact", chat |-> c, contact |-> i, ok |-> success]
                          ct2 == update_contact_chat_id(ct, i, c, success)
                      IN  IF success
                          THEN Routed(FlowResult(us, ct2,
                                        <<Msg("checking_phone"), show_main_menu_File(ct2, c, okM)>>,
                                        <<w>>), "link_contact", lookup)
                          ELSE Routed(FlowResult(us, ct2,
                                        <<Msg("checking_phone"), Msg("link_failed")>>,
                                        <<w>>), "link_contact", lookup)
                      : i \in found, okU \in BOOLEAN, okM \in BOOLEAN}
                ELSE start_registration(c, clean_phone, us, ct, lookup)
                : okF \in BOOLEAN}
         ELSE IF is_email(t)
         THEN UNION {
                LET found == find_contact_by_email(ct, t, okF) IN
                IF found # {}
                THEN {LET success == okU /\ CanBind(ct, i, c)
                          w == [op |-> "update_contact", chat |-> c, contact |-> i, ok |-> success]
                          ct2 == update_contact_chat_id(ct, i, c, success)
                      IN  IF success
                          THEN Routed(FlowResult(us, ct2,
                                        <<Msg("checking_email"), show_main_menu_File(ct2, c, okM)>>,
                                        <<w>>), "link_contact_email", lookup)
                          ELSE Routed(FlowResult(us, ct2,
                                        <<Msg("checking_email"), Msg("link_failed")>>,
                                        <<w>>), "link_contact_email", lookup)
                      : i \in found, okU \in BOOLEAN, okM \in BOOLEAN}
                ELSE {Routed(FlowResult(us, ct, <<Msg("checking_email"), Msg("no_email_account")>>,
                                        <<>>), "email_unknown", lookup)}
                : okF \in BOOLEAN}
         ELSE {Routed(FlowResult(us, ct, <<Msg("identifier_prompt")>>, <<>>),
                      "identifier_prompt", lookup)}
    ELSE IF us[c].type = "registration"
    THEN {Routed(r, "registration_flow", lookup) : r \in handle_registration_flow(c, t, us, ct)}
    \* a support_description state has no 'step': KeyError, caught by the
    \* webhook's except clause, which answers 500 and sends nothing
    ELSE {Routed(FlowResult(us, ct, <<>>, <<>>), "error", lookup)}

\* File.py telegram_webhook for an update that carries a message
telegram_webhook_File(c, t, us, ct, th) ==
    IF t = T_start
    THEN {Routed(FlowResult(us, ct, <<Msg("welcome_prompt")>>, <<>>), "start", "skipped")}
    ELSE UNION {
        IF check_existing_contact(ct, c, ok)
        THEN handle_registered_user(c, t, us, ct, th)
        ELSE handle_unregistered(c, t, us, ct, IF ok THEN "notfound" ELSE "failed")
        : ok \in BOOLEAN}

\* one message handled by the File.py webhook; th is the status of the chat's
\* Conversation_Thread__c in the CRM while the message is handled (the thread
\* is moved by agents and CRM workflows only)
FileMessage(c, t, th) ==
    /\ variant = "File"
    /\ last = NoRequest
    /\ \E r \in telegram_webhook_File(c, t, user_states, contacts, th) :
          /\ user_states' = r.us
          /\ contacts' = r.ct
          /\ last' = [kind |-> "message", chat |-> c, text |-> t, data |-> "",
                      registered |-> ContactsOfChat(contacts, c) # {},
                      lookup |-> r.lookup, route |-> r.route,
                      thread |-> IF r.route \in ThreadRoutes THEN th ELSE "none",
                      state0 |-> user_states[c], cache0 |-> EmptyEntry,
                      sent |-> r.sent, writes |-> r.writes, queries |-> <<>>]
    /\ UNCHANGED <<sf_auth, rate_limiter, now, threads, variant, user_session_state,
                   channel_users, sessions>>

----------------------------------------------------------------------------
(* The CRM as app.py uses it: Channel_User__c, Support_Conversation__c and *)
(* Chat_Session__c.  The CRM binds at most one record to a chat id.        *)

\* a chat has no Channel_User__c, one without an Active conversation, or one
\* with an Active Support_Conversation__c
ChannelUserStates == {"none", "no_conversation", "active_conversation"}

MAX_MESSAGE_LENGTH == 4000

\* the NUL character, written as one symbol
NulChar == "NUL"

NotNul(ch) == ch # NulChar

\* app.py sanitize_input (ENABLE_INPUT_SANITIZATION is on by default)
sanitize_input(text) ==
    IF text = <<>> THEN text
    ELSE LET t1 == SelectSeq(text, NotNul)
         IN  IF Len(t1) > MAX_MESSAGE_LENGTH THEN SubSeq(t1, 1, MAX_MESSAGE_LENGTH) ELSE t1

\* app.py check_existing_channel_user: None when the call fails or no record
check_existing_channel_user(cu, c, ok) == ok /\ cu[c] # "none"

\* app.py get_active_support_conversation: None when the call fails or the
\* channel user has no Active conversation
get_active_support_conversation(cu, c, ok) == ok /\ cu[c] = "active_conversation"

\* the Active/Waiting sessions of a conversation
OpenSessions(ss, c) ==
    {i \in DOMAIN ss : ss[i].conv = c /\ ss[i].status \in {"Active", "Waiting"}}

Max(S) == CHOOSE x \in S : \A y \in S : y <= x

\* app.py get_active_sessions: ORDER BY Created_Date__c DESC LIMIT 1; the id
\* of the newest Active/Waiting session, 0 for the empty list (also on failure)
get_active_sessions(ss, c, ok) ==
    IF ok /\ OpenSessions(ss, c) # {} THEN Max(OpenSessions(ss, c)) ELSE 0

\* a rank that counts from the newest session of the queue
queue_rank_newest_first(ss, session_id) ==
    LET queue == {i \in DOMAIN ss : ss[i].owner = "queue" /\ ss[i].status = "Waiting"}
    IN  IF session_id \in queue
        THEN Cardinality({i \in queue : i >= session_id})
        ELSE 0

\* app.py get_queue_position, lines 953-976: the 1-based index of the session
\* among all Waiting sessions owned by the intake queue, ORDER BY CreatedDate
\* ASC; 0 is None
queue_rank(ss, session_id) ==
    LET queue == {i \in DOMAIN ss : ss[i].owner = "queue" /\ ss[i].status = "Waiting"}
    IN  IF session_id \in queue
        THEN Cardinality({i \in queue : i <= session_id})
        ELSE 0

\* a position that counts the conversation's own Waiting sessions only
get_queue_position_own_rank(ss, c, ok) ==
    LET waiting == {i \in DOMAIN ss : ss[i].conv = c /\ ss[i].status = "Waiting"}
    IN  IF ~ok \/ waiting = {} THEN 0
        ELSE IF ss[Max(waiting)].owner = "queue"
             THEN Cardinality({i \in waiting : ss[i].owner = "queue"})
             ELSE 0

\* app.py get_queue_position: the rank of the conversation's newest Waiting
\* session (ORDER BY CreatedDate DESC LIMIT 1); 0 is None
get_queue_position(ss, c, ok) ==
    LET waiting == {i \in DOMAIN ss : ss[i].conv = c /\ ss[i].status = "Waiting"}
    IN  IF ~ok \/ waiting = {} THEN 0
        ELSE queue_rank(ss, Max(waiting))

\* app.py find_contact_by_phone: None when the call fails, the number does not
\* sanitize, or no Contact matches
find_contact_by_phone_app(ct, phone, ok) ==
    LET clean_phone == bot_clean_phone_number(phone) IN
    IF ok /\ clean_phone # <<>>
    THEN {i \in DOMAIN ct : EndsWith(ct[i].phone, clean_phone)}
    ELSE {}

\* outcomes of the session-start webhook call: rejected, accepted with the
\* session created before the poll, accepted with the session created later
SessionStartOutcomes == {"fail", "created", "pending"}

\* app.py create_new_session -> forward_to_salesforce(isSessionStart)
create_new_session(ss, c, outcome) ==
    IF outcome = "created" /\ Len(ss) < MaxSessions
    THEN Append(ss, [conv |-> c, status |-> "Waiting", owner |-> "queue"])
    ELSE ss

create_new_session_success(ss, outcome) ==
    \/ outcome = "pending"
    \/ outcome = "created" /\ Len(ss) < MaxSessions

\* app.py is_menu_command
is_menu_command(text) ==
    IF text = <<>> THEN FALSE
    ELSE Lower(Strip(text)) \in {<<"/", "s", "t", "a", "r", "t">>, <<"h", "i">>,
                                 <<"h", "e", "l", "l", "o">>, <<"h", "e", "y">>,
                                 <<"m", "e", "n", "u">>, <<"h", "e", "l", "p">>}

\* a heuristic that looks at the length only
support_like_long_only(safe_message, message_lower) ==
    Len(safe_message) > 20

\* a heuristic that takes every text for a support request
support_like_always(safe_message, message_lower) == TRUE

\* app.py process_incoming_message, line 1634: the support-like heuristic
support_like(safe_message, message_lower) ==
    \/ Len(safe_message) > 20
    \/ Contains(safe_message, <<"?">>)
    \/ Contains(message_lower, <<"h", "e", "l", "p">>)
    \/ Contains(message_lower, <<"i", "s", "s", "u", "e">>)
    \/ Contains(message_lower, <<"p", "r", "o", "b", "l", "e", "m">>)

\* app.py show_main_menu: the keyboard depends on has_active_session
show_main_menu_app(has_active_session) ==
    IF has_active_session THEN Msg("session_menu") ELSE Msg("main_menu")

\* app.py send_message_confirmation: the position is quoted only in the
\* confirmation of a session start
send_message_confirmation(success, is_session_start, queue_position) ==
    IF ~success THEN Msg("failed_to_send")
    ELSE IF is_session_start
    THEN [kind |-> "delivered_queue", pos |-> queue_position,
          queue_position |-> queue_position]
    ELSE [kind |-> "delivered", pos |-> 0, queue_position |-> queue_position]

----------------------------------------------------------------------------
(* app.py: the hardened router *)

\* what an app.py step leaves behind
AppResult(success, sid, uss, ss, sent, writes, queries) ==
    [success |-> success, sid |-> sid, uss |-> uss, ss |-> ss,
     sent |-> sent, writes |-> writes, queries |-> queries]

\* app.py forward_to_salesforce of a session message
SessionForward(c, text, sid, ok) ==
    [op |-> "forward", chat |-> c, text |-> text, session |-> sid, ok |-> ok]

\* a poll that found nothing and still marks the chat as in a session
poll_failed_marks_in_session(c, uss, ss, w) ==
    AppResult(FALSE, 0, [uss EXCEPT ![c] = InSession(0, "Waiting")], ss,
              <<Msg("session_not_retrieved")>>, <<w>>, <<0, 0>>)

\* app.py handle_contact_support, lines 1156-1164: the one poll after the
\* create request returned no session
poll_failed(c, uss, ss, w) ==
    AppResult(FALSE, 0, uss, ss, <<Msg("session_not_retrieved")>>, <<w>>, <<0, 0>>)

\* a handler that requests a session whatever the lookup reported
handle_contact_support_creates_anyway(c, uss, ss) ==
    UNION {
        LET first == get_active_sessions(ss, c, ok1) IN
        UNION {
            LET success == create_new_session_success(ss, o)
                w == [op |-> "create_session", chat |-> c, ok |-> success]
            IN  {AppResult(success, first, uss, create_new_session(ss, c, o),
                           <<Msg("session_created")>>, <<w>>, <<first>>)}
            : o \in SessionStartOutcomes}
        : ok1 \in BOOLEAN}

\* app.py handle_contact_support (conversation_id is never empty at its callers)
handle_contact_support(c, uss, ss) ==
    UNION {
        LET first == get_active_sessions(ss, c, ok1) IN
        IF first # 0
        THEN \* an Active/Waiting session exists: re-attach the cache to it
             LET session_status == ss[first].status
                 uss2 == [uss EXCEPT ![c] = InSession(first, session_status)]
             IN  IF session_status = "Active"
                 THEN {AppResult(TRUE, first, uss2, ss,
                                 <<Msg("active_session_notice")>>, <<>>, <<first>>)}
                 ELSE {AppResult(TRUE, first, uss2, ss,
                                 <<MsgPos("queue_notice", get_queue_position(ss, c, okq))>>,
                                 <<>>, <<first>>) : okq \in BOOLEAN}
        ELSE \* no session reported: request one, wait, poll once
             UNION {
                LET success == create_new_session_success(ss, o)
                    ss2 == create_new_session(ss, c, o)
                    w == [op |-> "create_session", chat |-> c, ok |-> success]
                IN  IF ~success
                    THEN {AppResult(FALSE, 0, uss, ss2,
                                    <<Msg("session_create_failed")>>, <<w>>, <<0>>)}
                    ELSE UNION {
                        LET polled == get_active_sessions(ss2, c, ok2) IN
                        IF polled = 0
                        THEN {poll_failed(c, uss, ss2, w)}
                        ELSE {AppResult(TRUE, polled,
                                        [uss EXCEPT ![c] = InSession(polled, "Waiting")],
                                        ss2,
                                        <<MsgPos("session_created",
                                                 get_queue_position(ss2, c, okq))>>,
                                        <<w>>, <<0, polled>>) : okq \in BOOLEAN}
                        : ok2 \in BOOLEAN}
                : o \in SessionStartOutcomes}
        : ok1 \in BOOLEAN}

\* app.py handle_continue_session
handle_continue_session(c, uss, ss) ==
    UNION {
        LET found == get_active_sessions(ss, c, ok1) IN
        IF found = 0
        THEN {AppResult(TRUE, 0, uss, ss, <<Msg("no_active_session")>>, <<>>, <<0>>)}
        ELSE LET session_status == ss[found].status
                 uss2 == [uss EXCEPT ![c] = InSession(found, session_status)]
             IN  IF session_status = "Active"
                 THEN {AppResult(TRUE, found, uss2, ss,
                                 <<Msg("returning_active")>>, <<>>, <<found>>)}
                 ELSE {AppResult(TRUE, found, uss2, ss,
                                 <<MsgPos("returning_queue", get_queue_position(ss, c, okq))>>,
                                 <<>>, <<found>>) : okq \in BOOLEAN}
        : ok1 \in BOOLEAN}

\* a store that is not keyed by the chat of the request
store_waiting_every_chat(c, r) ==
    IF r.success /\ r.sid # 0
    THEN [r EXCEPT !.uss = [b \in Chats |-> InSession(r.sid, "Waiting")]]
    ELSE r

\* the callers of handle_contact_support that store the returned session id:
\* if success and session_id: user_session_state[chat] = {..., 'Waiting'}
store_waiting(c, r) ==
    IF r.success /\ r.sid # 0
    THEN [r EXCEPT !.uss = [r.uss EXCEPT ![c] = InSession(r.sid, "Waiting")]]
    ELSE r

\* app.py handle_track_case
handle_track_case == Msg("tracking_soon")

\* outcomes of create_channel_user_with_conversation: nothing created (None);
\* channel user created and the conversation rejected ({id, None}); channel
\* user created and the conversation request raised (None); both created
ChannelUserOutcomes == {"none", "user_only", "user_only_error", "both"}

\* app.py create_channel_user_with_conversation: the channel users afterwards
create_channel_user_with_conversation(cu, c, outcome) ==
    IF cu[c] # "none" \/ outcome = "none" THEN cu
    ELSE IF outcome = "both" THEN [cu EXCEPT ![c] = "active_conversation"]
    ELSE [cu EXCEPT ![c] = "no_conversation"]

\* ... and whether it returns a dict (truthy) rather than None
create_channel_user_result(cu, c, outcome) ==
    cu[c] = "none" /\ outcome \in {"user_only", "both"}

\* app.py update_contact_telegram_id
update_contact_telegram_id(ct, i, c, ok) ==
    IF ok /\ CanBind(ct, i, c) THEN [ct EXCEPT ![i].chat = c] ELSE ct

RegResult(cu, ct, sent, writes, route) ==
    [cu |-> cu, ct |-> ct, sent |-> sent, writes |-> writes, route |-> route]

\* app.py handle_new_user_registration
handle_new_user_registration(c, message_text, cu, ct) ==
    LET message_lower == Lower(Strip(message_text)) IN
    IF message_lower = T_start
    THEN {RegResult(cu, ct, <<Msg("welcome_register")>>, <<>>, "registration_start")}
    ELSE IF is_phone_number_app(message_text)
    THEN LET clean_phone == bot_clean_phone_number(message_text) IN
         IF clean_phone = <<>>
         THEN {RegResult(cu, ct, <<Msg("phone_prompt")>>, <<>>, "registration_prompt")}
         ELSE UNION {
            LET found == find_contact_by_phone_app(ct, clean_phone, okF) IN
            {LET cu2 == create_channel_user_with_conversation(cu, c, o)
                 result == create_channel_user_result(cu, c, o)
                 linked == o = "both" /\ cu[c] = "none" /\ i # 0
                 ct2 == IF linked THEN update_contact_telegram_id(ct, i, c, okU) ELSE ct
                 w1 == <<[op |-> "create_channel_user", chat |-> c, contact |-> i,
                          ok |-> cu2[c] # "none" /\ cu[c] = "none"]>>
                 w2 == IF cu2[c] # "none" /\ cu[c] = "none"
                       THEN <<[op |-> "create_conversation", chat |-> c, contact |-> i,
                               ok |-> cu2[c] = "active_conversation"]>>
                       ELSE <<>>
                 w3 == IF linked
                       THEN <<[op |-> "update_contact", chat |-> c, contact |-> i,
                               ok |-> okU /\ CanBind(ct, i, c)]>>
                       ELSE <<>>
             IN  IF ~result
                 THEN RegResult(cu2, ct2, <<Msg("account_error")>>, w1 \o w2 \o w3,
                                "registration_phone")
                 ELSE RegResult(cu2, ct2,
                                <<IF i # 0 THEN Msg("welcome_back")
                                           ELSE Msg("registration_successful"),
                                  show_main_menu_app(FALSE)>>,
                                w1 \o w2 \o w3, "registration_phone")
             : i \in (IF found = {} THEN {0} ELSE found),
               o \in ChannelUserOutcomes, okU \in BOOLEAN}
            : okF \in BOOLEAN}
    ELSE {RegResult(cu, ct, <<Msg("phone_prompt")>>, <<>>, "registration_prompt")}

\* results of the registered path carry the branch that produced them
Branch(r, route) == [r |-> r, route |-> route]

\* prefix the session queries made before a helper was called
After(queries, r) == [r EXCEPT !.queries = queries \o r.queries]

W_contact_words ==
    {W_contact, W_support,
     <<"c", "o", "n", "t", "a", "c", "t", " ", "s", "u", "p", "p", "o", "r", "t">>,
     <<"c", "u", "s", "t", "o", "m", "e", "r", " ", "s", "u", "p", "p", "o", "r", "t">>}

W_track_words ==
    {W_track, <<"t", "r", "a", "c", "k", " ", "c", "a", "s", "e">>,
     <<"c", "a", "s", "e">>, <<"m", "y", " ", "c", "a", "s", "e">>}

W_new_words ==
    {<<"n", "e", "w">>, <<"n", "e", "w", " ", "s", "u", "p", "p", "o", "r", "t">>,
     <<"n", "e", "w", " ", "s", "e", "s", "s", "i", "o", "n">>}

W_menu_words == {<<"m", "a", "i", "n", " ", "m", "e", "n", "u">>, <<"m", "e", "n", "u">>}

\* a router that keeps forwarding to the session id it has cached
forward_cached_session_id(user_state, current) ==
    IF user_state.kind = "in_session" THEN user_state.session_id ELSE current

\* app.py process_incoming_message, lines 1589-1590: the id of the session the
\* CRM reported in this request, whatever the cache holds
forward_session_id(user_state, current) == current

\* app.py process_incoming_message, lines 1576-1684: regular message handling
regular_message(c, safe_message, message_lower, is_in_session, first, uss, ss) ==
    IF is_in_session \/ first # 0
    THEN UNION {
        LET current == get_active_sessions(ss, c, ok2) IN
        IF current = 0
        THEN {Branch(AppResult(TRUE, 0, [uss EXCEPT ![c] = EmptyEntry], ss,
                               <<show_main_menu_app(FALSE)>>, <<>>, <<first, 0>>),
                     "forward_reset_menu")}
        ELSE LET session_id == forward_session_id(uss[c], current)
                 session_status == ss[current].status
                 uss2 == [uss EXCEPT ![c] = InSession(session_id, session_status)]
             IN  {Branch(AppResult(okF, session_id, uss2, ss,
                               <<send_message_confirmation(okF, FALSE,
                                    IF session_status = "Waiting"
                                    THEN get_queue_position(ss, c, okq) ELSE 0)>>,
                               <<SessionForward(c, safe_message, session_id, okF)>>,
                               <<first, current>>),
                     "forward") : okF \in BOOLEAN, okq \in BOOLEAN}
        : ok2 \in BOOLEAN}
    ELSE IF support_like(safe_message, message_lower)
    THEN UNION {
        IF h.success /\ h.sid # 0
        THEN LET h2 == store_waiting(c, h) IN
             {Branch(AppResult(okF, h2.sid, h2.uss, h2.ss,
                               h2.sent \o <<send_message_confirmation(okF, TRUE,
                                                IF okF
                                                THEN get_queue_position(h2.ss, c, okq)
                                                ELSE 0)>>,
                               h2.writes \o <<SessionForward(c, safe_message, h2.sid, okF)>>,
                               <<first>> \o h2.queries),
                     "auto_session") : okF \in BOOLEAN, okq \in BOOLEAN}
        ELSE {Branch(After(<<first>>, h), "auto_session")}
        : h \in handle_contact_support(c, uss, ss)}
    ELSE {Branch(AppResult(TRUE, 0, uss, ss, <<show_main_menu_app(FALSE)>>, <<>>, <<first>>),
                 "idle_menu")}

\* a router that picks the menu by what the cache says
has_active_session_cached(user_state, first) == user_state.kind = "in_session"

\* app.py process_incoming_message, line 1482: len(active_sessions) > 0
has_active_salesforce_session(user_state, first) == first # 0

\* a router that trusts the cached entry
stale_entry_ignored(user_state, first) == FALSE

\* app.py process_incoming_message, lines 1484-1487: the cache says in_session
\* and the CRM reports no Active/Waiting session
stale_entry(user_state, first) == user_state.kind = "in_session" /\ first = 0

\* app.py process_incoming_message, lines 1475-1684: a chat with a channel user
\* and an Active conversation
registered_message(c, safe_message, uss, ss) ==
    LET message_lower == Lower(Strip(safe_message))
        user_state == uss[c]
    IN  UNION {
        LET first == get_active_sessions(ss, c, ok1)
            stale == stale_entry(user_state, first)
            uss1 == IF stale THEN [uss EXCEPT ![c] = EmptyEntry] ELSE uss
            is_in_session == user_state.kind = "in_session" /\ ~stale
            menu == {Branch(AppResult(TRUE, 0, uss1, ss,
                                      <<show_main_menu_app(
                                           has_active_salesforce_session(user_state, first))>>,
                                      <<>>, <<first>>), "menu")}
        IN  IF is_menu_command(safe_message) THEN menu
            ELSE IF message_lower \in W_contact_words THEN menu
            ELSE IF message_lower \in W_track_words
            THEN {Branch(AppResult(TRUE, 0, uss1, ss, <<handle_track_case>>, <<>>, <<first>>),
                         "track")}
            ELSE IF message_lower \in W_new_words
            THEN IF first # 0
                 THEN {Branch(AppResult(TRUE, 0, [uss1 EXCEPT ![c] = Awaiting], ss,
                                        <<Msg("confirm_prompt")>>, <<>>, <<first>>),
                              "confirm_prompt")}
                 ELSE {Branch(After(<<first>>, store_waiting(c, h)), "new_session")
                       : h \in handle_contact_support(c, uss1, ss)}
            ELSE IF message_lower \in W_menu_words THEN menu
            ELSE IF user_state.kind = "awaiting" /\ message_lower = T_yes
            THEN {Branch(After(<<first>>, store_waiting(c, h)), "confirm_yes")
                  : h \in handle_contact_support(c, [uss1 EXCEPT ![c] = EmptyEntry], ss)}
            ELSE IF user_state.kind = "awaiting" /\ message_lower = T_no
            THEN {Branch(After(<<first>>, h), "confirm_no")
                  : h \in handle_continue_session(c, [uss1 EXCEPT ![c] = EmptyEntry], ss)}
            ELSE regular_message(c, safe_message, message_lower, is_in_session, first,
                                 uss1, ss)
        : ok1 \in BOOLEAN}

\* the whole outcome of one app.py request
Full(r, cu, ct, route, lookup) ==
    [uss |-> r.uss, ss |-> r.ss, cu |-> cu, ct |-> ct, sent |-> r.sent,
     writes |-> r.writes, queries |-> r.queries, route |-> route, lookup |-> lookup]

FullReg(r, uss, ss, lookup) ==
    [uss |-> uss, ss |-> ss, cu |-> r.cu, ct |-> r.ct, sent |-> r.sent,
     writes |-> r.writes, queries |-> <<>>, route |-> r.route, lookup |-> lookup]

\* app.py process_incoming_message
process_incoming_message(c, message_text, uss, ss, cu, ct) ==
    LET safe_message == sanitize_input(message_text) IN
    UNION {
        IF ~check_existing_channel_user(cu, c, ok0)
        THEN {FullReg(r, uss, ss, IF ok0 THEN "notfound" ELSE "failed")
              : r \in handle_new_user_registration(c, safe_message, cu, ct)}
        ELSE UNION {
            IF ~get_active_support_conversation(cu, c, okC)
            THEN {Full(AppResult(TRUE, 0, uss, ss, <<show_main_menu_app(FALSE)>>,
                                 <<>>, <<>>),
                       cu, ct, "no_conversation_menu", "found")}
            ELSE {Full(x.r, cu, ct, x.route, "found")
                  : x \in registered_message(c, safe_message, uss, ss)}
            : okC \in BOOLEAN}
        : ok0 \in BOOLEAN}

\* the callback data of the inline buttons, and one unknown value
CallbackData ==
    {"contact_support", "track_case", "new_session", "continue_session", "main_menu",
     "confirm_new_session", "cancel_new_session", "register_phone", "other"}

\* app.py handle_callback_query, lines 1348-1410: a chat with a channel user and
\* an Active conversation
registered_callback(c, callback_data, uss, ss) ==
    IF callback_data = "contact_support"
    THEN {Branch(store_waiting(c, h), "cb_contact_support")
          : h \in handle_contact_support(c, uss, ss)}
    ELSE IF callback_data = "track_case"
    THEN {Branch(AppResult(TRUE, 0, uss, ss, <<handle_track_case>>, <<>>, <<>>), "cb_track")}
    ELSE IF callback_data = "new_session"
    THEN UNION {
        LET active == get_active_sessions(ss, c, ok1) IN
        IF active # 0
        THEN {Branch(AppResult(TRUE, 0, uss, ss, <<Msg("confirm_prompt")>>, <<>>,
                               <<active>>), "cb_confirm_prompt")}
        ELSE {Branch(After(<<active>>, h), "cb_new_session")
              : h \in handle_contact_support(c, uss, ss)}
        : ok1 \in BOOLEAN}
    ELSE IF callback_data = "continue_session"
    THEN {Branch(h, "cb_continue") : h \in handle_continue_session(c, uss, ss)}
    ELSE IF callback_data = "main_menu"
    THEN {LET active == get_active_sessions(ss, c, ok1) IN
          Branch(AppResult(TRUE, 0, uss, ss, <<show_main_menu_app(active # 0)>>, <<>>,
                           <<active>>), "cb_menu")
          : ok1 \in BOOLEAN}
    ELSE IF callback_data = "confirm_new_session"
    THEN {Branch(h, "cb_confirm_new")
          : h \in handle_contact_support(c, [uss EXCEPT ![c] = EmptyEntry], ss)}
    ELSE IF callback_data = "cancel_new_session"
    THEN {Branch(h, "cb_cancel_new") : h \in handle_continue_session(c, uss, ss)}
    ELSE {Branch(AppResult(TRUE, 0, uss, ss, <<Msg("edit_reply_markup")>>, <<>>, <<>>),
                 "cb_other")}

\* app.py handle_new_user_registration_callback
handle_new_user_registration_callback(callback_data) ==
    IF callback_data = "register_phone" THEN <<Msg("welcome_phone")>> ELSE <<>>

\* app.py handle_callback_query
handle_callback_query(c, callback_data, uss, ss, cu, ct) ==
    UNION {
        IF ~check_existing_channel_user(cu, c, ok0)
        THEN {Full(AppResult(TRUE, 0, uss, ss,
                             handle_new_user_registration_callback(callback_data),
                             <<>>, <<>>),
                   cu, ct, "cb_registration", IF ok0 THEN "notfound" ELSE "failed")}
        ELSE UNION {
            IF ~get_active_support_conversation(cu, c, okC)
            THEN {Full(AppResult(FALSE, 0, uss, ss, <<Msg("conversation_not_found")>>,
                                 <<>>, <<>>),
                       cu, ct, "cb_no_conversation", "found")}
            ELSE {Full(x.r, cu, ct, x.route, "found")
                  : x \in registered_callback(c, callback_data, uss, ss)}
            : okC \in BOOLEAN}
        : ok0 \in BOOLEAN}

----------------------------------------------------------------------------
(* Actions.  gunicorn runs one synchronous worker, so a request is handled *)
(* to its end before the next one starts.                                  *)

\* the state one app.py request leaves
AppDone(c, t, d, kind, r) ==
    /\ user_session_state' = r.uss
    /\ sessions' = r.ss
    /\ channel_users' = r.cu
    /\ contacts' = r.ct
    /\ last' = [kind |-> kind, chat |-> c, text |-> t, data |-> d,
                registered |-> channel_users[c] # "none",
                lookup |-> r.lookup, route |-> r.route, thread |-> "none",
                state0 |-> NoState, cache0 |-> user_session_state[c],
                sent |-> r.sent, writes |-> r.writes, queries |-> r.queries]
    /\ UNCHANGED <<sf_auth, rate_limiter, now, threads, variant, user_states>>

\* app.py telegram_webhook: an update that carries a text message
AppMessage(c, t) ==
    /\ variant = "app"
    /\ last = NoRequest
    /\ \E r \in process_incoming_message(c, t, user_session_state, sessions,
                                         channel_users, contacts) :
          AppDone(c, t, "", "message", r)

\* app.py telegram_webhook: an update that carries a callback query
AppCallback(c, d) ==
    /\ variant = "app"
    /\ last = NoRequest
    /\ \E r \in handle_callback_query(c, d, user_session_state, sessions,
                                      channel_users, contacts) :
          AppDone(c, <<>>, d, "callback", r)

\* the CRM opens a session for a conversation (a start request it accepted
\* and completes after the bot polled, or a session an agent opens)
CrmCreatesSession(c) ==
    /\ variant = "app"
    /\ last = NoRequest
    /\ channel_users[c] = "active_conversation"
    /\ Len(sessions) < MaxSessions
    /\ sessions' = Append(sessions, [conv |-> c, status |-> "Waiting", owner |-> "queue"])
    /\ UNCHANGED <<sf_auth, rate_limiter, now, threads, variant, user_states,
                   user_session_state, contacts, channel_users, last>>

\* an agent accepts a Waiting session
CrmAgentAccepts(i) ==
    /\ variant = "app"
    /\ last = NoRequest
    /\ i \in DOMAIN sessions
    /\ sessions[i].status = "Waiting"
    /\ sessions' = [sessions EXCEPT ![i] = [@ EXCEPT !.status = "Active", !.owner = "agent"]]
    /\ UNCHANGED <<sf_auth, rate_limiter, now, threads, variant, user_states,
                   user_session_state, contacts, channel_users, last>>

\* a Waiting session is taken from the intake queue and stays Waiting
CrmReassigns(i) ==
    /\ variant = "app"
    /\ last = NoRequest
    /\ i \in DOMAIN sessions
    /\ sessions[i].status = "Waiting"
    /\ sessions[i].owner = "queue"
    /\ sessions' = [sessions EXCEPT ![i] = [@ EXCEPT !.owner = "agent"]]
    /\ UNCHANGED <<sf_auth, rate_limiter, now, threads, variant, user_states,
                   user_session_state, contacts, channel_users, last>>

\* the CRM closes a session
CrmClosesSession(i) ==
    /\ variant = "app"
    /\ last = NoRequest
    /\ i \in DOMAIN sessions
    /\ sessions[i].status \in {"Waiting", "Active"}
    /\ sessions' = [sessions EXCEPT ![i] = [@ EXCEPT !.status = "Closed"]]
    /\ UNCHANGED <<sf_auth, rate_limiter, now, threads, variant, user_states,
                   user_session_state, contacts, channel_users, last>>

\* app.py send_to_user: the CRM relays a message to the chat and names the
\* status of a session of the chat's conversation; a non-empty cache entry
\* takes the status
SendToUser(c, session_status) ==
    /\ variant = "app"
    /\ last = NoRequest
    /\ \E i \in DOMAIN sessions :
          sessions[i].conv = c /\ sessions[i].status = session_status
    /\ user_session_state[c] # EmptyEntry
    /\ user_session_state[c].session_status # session_status
    /\ user_session_state' =
          [user_session_state EXCEPT ![c] = [@ EXCEPT !.session_status = session_status]]
    /\ UNCHANGED <<sf_auth, rate_limiter, now, threads, variant, user_states,
                   contacts, channel_users, sessions, last>>

\* app.py clear_session_state: the testing endpoint deletes the chat's entry
ClearSessionState(c) ==
    /\ variant = "app"
    /\ last = NoRequest
    /\ user_session_state[c] # EmptyEntry
    /\ user_session_state' = [user_session_state EXCEPT ![c] = EmptyEntry]
    /\ UNCHANGED <<sf_auth, rate_limiter, now, threads, variant, user_states,
                   contacts, channel_users, sessions, last>>

\* one call of get_queue_position for a conversation; the log keeps the answer
AskQueuePosition(c) ==
    /\ variant = "app"
    /\ last = NoRequest
    /\ \E ok \in BOOLEAN :
          last' = [NoRequest EXCEPT
                      !.kind = "queue_position", !.chat = c,
                      !.lookup = IF ok THEN "found" ELSE "failed",
                      !.sent = <<MsgPos("queue_position",
                                        get_queue_position(sessions, c, ok))>>]
    /\ UNCHANGED <<sf_auth, rate_limiter, now, threads, variant, user_states,
                   user_session_state, contacts, channel_users, sessions>>

\* the phone numbers given to the normalizers: a prefix, a leading digit, eight
\* digits of which the first MaxVariedDigits vary, and a suffix
PhoneInputs ==
    LET prefixes == PhonePrefixes \cup {<<"2", "5", "1", "0">>}
        leads == {"9", "7", "8"}
        varied == {"0", "1", "2", "5"}
        tails == {[i \in 1..8 |-> IF i <= MaxVariedDigits THEN v[i] ELSE "1"]
                    : v \in [1..MaxVariedDigits -> varied]}
        suffixes == {<<>>, <<"1">>, <<" ">>}
    IN  {p \o <<l>> \o t \o x : p \in prefixes, l \in leads, t \in tails, x \in suffixes}

\* one call of the normalizer of the running router, and one more call on the
\* value it returned; the log keeps both values
NormalizePhone(phone) ==
    /\ last = NoRequest
    /\ sessions = <<>>
    /\ LET first == IF variant = "File" THEN clean_phone_number(phone)
                    ELSE bot_clean_phone_number(phone)
           second == IF variant = "File" THEN clean_phone_number(first)
                     ELSE bot_clean_phone_number(first)
       IN  last' = [NoRequest EXCEPT
                       !.kind = "normalize", !.text = phone,
                       !.writes = <<[op |-> "normalize", phone |-> first],
                                    [op |-> "normalize", phone |-> second]>>]
    /\ UNCHANGED <<sf_auth, rate_limiter, now, threads, variant, user_states,
                   user_session_state, contacts, channel_users, sessions>>

\* a send_message whose loop goes on after every failed attempt
send_message_always_continues(has_base_url, replies) ==
    LET max_retries == 3
        RECURSIVE loop(_)
        loop(attempt) ==
            IF attempt >= max_retries
            THEN [result |-> "None", attempts |-> attempt]
            ELSE IF replies[attempt + 1] = "ok"
            THEN [result |-> "True", attempts |-> attempt + 1]
            ELSE loop(attempt + 1)
    IN  IF ~has_base_url THEN [result |-> "False", attempts |-> 0] ELSE loop(0)

\* app.py TelegramBotManager.send_message with _execute_safe_request: the
\* value returned and the number of HTTP attempts made, given what the chat
\* platform does at each attempt: "ok", an error reply that says "retry after
\* <n>", one that says "retry after" without a number, another error reply,
\* or an exception (timeout, connection error, a reply that is not JSON).
\* "None" is the value of a loop that ends without a return statement.
send_message(has_base_url, replies) ==
    LET max_retries == 3
        RECURSIVE loop(_)
        loop(attempt) ==
            IF attempt >= max_retries
            THEN [result |-> "None", attempts |-> attempt]
            ELSE IF replies[attempt + 1] = "ok"
            THEN [result |-> "True", attempts |-> attempt + 1]
            ELSE IF /\ replies[attempt + 1] \in {"retry_after", "exception"}
                    /\ attempt < max_retries - 1
            THEN loop(attempt + 1)
            ELSE [result |-> "False", attempts |-> attempt + 1]
    IN  IF ~has_base_url THEN [result |-> "False", attempts |-> 0] ELSE loop(0)

\* one call of send_message; the log keeps the replies held ready, whether
\* BOT_TOKEN was configured, the value returned and the attempts made
SendMessage(has_base_url, replies) ==
    /\ variant = "app"
    /\ last = NoRequest
    /\ sessions = <<>>
    /\ LET r == send_message(has_base_url, replies)
       IN  last' = [NoRequest EXCEPT
                       !.kind = "send_message", !.text = replies,
                       !.registered = has_base_url,
                       !.data = r.result, !.queries = <<r.attempts>>]
    /\ UNCHANGED <<sf_auth, rate_limiter, now, threads, variant, user_states,
                   user_session_state, contacts, channel_users, sessions>>

\* app.py telegram_webhook: a chat without a channel user sends one of the
\* phone numbers
PhoneMessage(c, phone) ==
    /\ sessions = <<>>
    /\ AppMessage(c, phone)

\* the webhook answers Telegram; the worker takes the next update
WebhookReturns ==
    /\ last # NoRequest
    /\ last' = NoRequest
    /\ UNCHANGED <<sf_auth, rate_limiter, now, threads, variant, user_states,
                   user_session_state, contacts, channel_users, sessions>>

Init ==
    /\ variant \in {"File", "app"}
    /\ user_states = [c \in Chats |-> NoState]
    /\ user_session_state = [c \in Chats |-> EmptyEntry]
    /\ contacts = <<[phone |-> NormPhoneA, email |-> EmailA, chat |-> NoChat]>>
    /\ channel_users = [c \in Chats |-> "none"]
    /\ sessions = <<>>
    /\ last = NoRequest
    /\ threads = [t \in 1..MaxThreads |-> NoThread]
    /\ sf_auth = [access_token |-> FALSE, token_lock |-> FALSE]
    /\ rate_limiter = [requests |-> [ip \in ClientIPs |-> <<>>], last_cleanup |-> 0]
    /\ now = 0

Next ==
    \/ \E c \in Chats, t \in Texts_File, th \in ThreadStates : FileMessage(c, t, th)
    \/ \E c \in Chats, t \in Texts_app : AppMessage(c, t)
    \/ \E c \in Chats, d \in CallbackData : AppCallback(c, d)
    \/ \E c \in Chats : CrmCreatesSession(c)
    \/ \E i \in 1..MaxSessions : CrmAgentAccepts(i)
    \/ \E i \in 1..MaxSessions : CrmReassigns(i)
    \/ \E i \in 1..MaxSessions : CrmClosesSession(i)
    \/ \E c \in Chats, st \in {"Active", "Waiting", "Closed"} : SendToUser(c, st)
    \/ \E c \in Chats : ClearSessionState(c)
    \/ WebhookReturns

Spec == Init /\ [][Next]_vars

\* the original router alone
InitFile == Init /\ variant = "File"

NextFile ==
    \/ \E c \in Chats, t \in Texts_File, th \in ThreadStates : FileMessage(c, t, th)
    \/ WebhookReturns

SpecFile == InitFile /\ [][NextFile]_vars

\* the queue rank and the phone normalizers alone, on every list of at most
\* MaxQueue sessions the CRM can hold and every phone number of PhoneInputs
InitFunctions ==
    /\ variant \in {"File", "app"}
    /\ user_states = [c \in Chats |-> NoState]
    /\ user_session_state = [c \in Chats |-> EmptyEntry]
    /\ contacts = <<[phone |-> NormPhoneA, email |-> EmailA, chat |-> NoChat]>>
    /\ channel_users = [c \in Chats |-> "none"]
    /\ sessions \in
          IF variant = "File" THEN {<<>>}
          ELSE UNION {[1..n -> [conv : Chats,
                                status : {"Waiting", "Active", "Closed"},
                                owner : {"queue", "agent"}]]
                        : n \in 0..MaxQueue}
    /\ \A i \in DOMAIN sessions :
          sessions[i].status = "Active" => sessions[i].owner = "agent"
    /\ last = NoRequest
    /\ threads = [t \in 1..MaxThreads |-> NoThread]
    /\ sf_auth = [access_token |-> FALSE, token_lock |-> FALSE]
    /\ rate_limiter = [requests |-> [ip \in ClientIPs |-> <<>>], last_cleanup |-> 0]
    /\ now = 0

NextFunctions ==
    \/ \E c \in Chats : AskQueuePosition(c)
    \/ \E phone \in PhoneInputs : NormalizePhone(phone)
    \/ \E phone \in PhoneInputs : PhoneMessage(1, phone)
    \/ \E has_base_url \in BOOLEAN,
          replies \in [1..MaxReplies -> {"ok", "retry_after", "retry_after_no_number",
                                         "error", "exception"}] :
          SendMessage(has_base_url, replies)

SpecFunctions == InitFunctions /\ [][NextFunctions]_vars

----------------------------------------------------------------------------
(* app.py started by its __main__ block: app.run serves every request in a *)
(* thread of its own, so the requests of one chat can overlap.  A thread   *)
(* gives way to another one at each call to the CRM.                       *)

\* app.py telegram_webhook and process_incoming_message, lines 1454-1473: a
\* thread takes the text "new" of a chat that has a channel user and a
\* conversation; the threads already at work for the chat overlap with it
ThreadStart(t, c) ==
    /\ variant = "app"
    /\ threads[t].pc = "idle"
    /\ channel_users[c] = "active_conversation"
    /\ LET running == {u \in DOMAIN threads \ {t} :
                          threads[u].pc # "idle" /\ threads[u].chat = c}
       IN  threads' =
              [u \in DOMAIN threads |->
                  IF u = t
                  THEN [pc |-> "route", chat |-> c, sid |-> 0, requested |-> FALSE,
                        crm_ok |-> TRUE, none0 |-> OpenSessions(sessions, c) = {},
                        with |-> running]
                  ELSE IF u \in running
                  THEN [threads[u] EXCEPT !.with = @ \cup {t}]
                  ELSE [threads[u] EXCEPT !.with = @ \ {t}]]
    /\ UNCHANGED <<sf_auth, rate_limiter, now, variant, user_states,
                   user_session_state, contacts, channel_users, sessions, last>>

\* one stretch of a thread, from one CRM call to the next:
\*   route   process_incoming_message 1480-1531: the session query of the router,
\*           the reset of a stale entry, the confirmation prompt or the call of
\*           handle_contact_support
\*   lookup  handle_contact_support 1106-1141: the session query, re-attaching
\*   create  handle_contact_support 1143-1159: the creation request
\*   poll    handle_contact_support 1161-1189: the one poll, the cache write
\*   store   process_incoming_message 1539-1545: the caller's cache write
ThreadStep(t) ==
    LET th == threads[t]
        c == th.chat
        Goes(pc, sid, ok, requested) ==
            [threads EXCEPT ![t] = [th EXCEPT !.pc = pc, !.sid = sid,
                                              !.crm_ok = th.crm_ok /\ ok,
                                              !.requested = requested]]
    IN  /\ variant = "app"
        /\ \/ /\ th.pc = "route"
              /\ \E ok \in BOOLEAN :
                    LET first == get_active_sessions(sessions, c, ok)
                        stale == stale_entry(user_session_state[c], first)
                    IN  /\ user_session_state' =
                              [user_session_state EXCEPT
                                  ![c] = IF first # 0 THEN Awaiting
                                         ELSE IF stale THEN EmptyEntry ELSE @]
                        /\ threads' = Goes(IF first # 0 THEN "idle" ELSE "lookup",
                                           0, ok, FALSE)
              /\ UNCHANGED sessions
           \/ /\ th.pc = "lookup"
              /\ \E ok \in BOOLEAN :
                    LET first == get_active_sessions(sessions, c, ok)
                    IN  /\ user_session_state' =
                              [user_session_state EXCEPT
                                  ![c] = IF first # 0
                                         THEN InSession(first, sessions[first].status)
                                         ELSE @]
                        /\ threads' = Goes(IF first # 0 THEN "store" ELSE "create",
                                           first, ok, FALSE)
              /\ UNCHANGED sessions
           \/ /\ th.pc = "create"
              /\ \E o \in SessionStartOutcomes :
                    /\ sessions' = create_new_session(sessions, c, o)
                    /\ threads' = Goes(IF create_new_session_success(sessions, o)
                                       THEN "poll" ELSE "idle",
                                       0, o = "created" /\ Len(sessions) < MaxSessions,
                                       TRUE)
              /\ UNCHANGED user_session_state
           \/ /\ th.pc = "poll"
              /\ \E ok \in BOOLEAN :
                    LET polled == get_active_sessions(sessions, c, ok)
                    IN  /\ user_session_state' =
                              [user_session_state EXCEPT
                                  ![c] = IF polled # 0 THEN InSession(polled, "Waiting")
                                         ELSE @]
                        /\ threads' = Goes(IF polled # 0 THEN "store" ELSE "idle",
                                           polled, ok, TRUE)
              /\ UNCHANGED sessions
           \/ /\ th.pc = "store"
              /\ user_session_state' =
                    [user_session_state EXCEPT ![c] = InSession(th.sid, "Waiting")]
              /\ threads' = Goes("idle", th.sid, TRUE, th.requested)
              /\ UNCHANGED sessions
        /\ UNCHANGED <<sf_auth, rate_limiter, now, variant, user_states, contacts, channel_users, last>>

\* every chat has a channel user and a conversation, no session, no thread
InitConcurrent ==
    /\ variant = "app"
    /\ user_states = [c \in Chats |-> NoState]
    /\ user_session_state = [c \in Chats |-> EmptyEntry]
    /\ contacts = <<[phone |-> NormPhoneA, email |-> EmailA, chat |-> NoChat]>>
    /\ channel_users = [c \in Chats |-> "active_conversation"]
    /\ sessions = <<>>
    /\ last = NoRequest
    /\ threads = [t \in 1..MaxThreads |-> NoThread]
    /\ sf_auth = [access_token |-> FALSE, token_lock |-> FALSE]
    /\ rate_limiter = [requests |-> [ip \in ClientIPs |-> <<>>], last_cleanup |-> 0]
    /\ now = 0

NextConcurrent ==
    \/ \E t \in 1..MaxThreads, c \in Chats : ThreadStart(t, c)
    \/ \E t \in 1..MaxThreads : ThreadStep(t)
    \/ \E i \in 1..MaxSessions : CrmAgentAccepts(i)
    \/ \E i \in 1..MaxSessions : CrmClosesSession(i)

SpecConcurrent == InitConcurrent /\ [][NextConcurrent]_vars

----------------------------------------------------------------------------
(* The objects all requests of the server share: the CRM token of          *)
(* SalesforceAuth and the RateLimiter of the middleware.                   *)

\* app.py SalesforceAuth.get_access_token, one stretch of a thread up to the
\* next sleep or HTTP call.  access_token stands for "a token is cached and
\* time.time() < token_expiry - 300".  The finally clause clears token_lock on
\* every way out, the return of the cached token included.
\*   idle        lines 246-262: the cached token, or the lock is seen and the
\*               thread sleeps, or the lock is taken and the request is sent
\*   waiting     lines 252-262: the lock was released or five seconds are over
\*               (REQUEST_TIMEOUT is 30): cached token, or lock and request
\*   requesting  lines 276-307: the answer, an error or a timeout
get_access_token(t) ==
    /\ variant = "app"
    /\ \/ /\ threads[t].pc \in {"idle", "waiting"}
          /\ IF sf_auth.access_token
             THEN /\ sf_auth' = [sf_auth EXCEPT !.token_lock = FALSE]
                  /\ threads' = [threads EXCEPT ![t].pc = "idle"]
             ELSE IF threads[t].pc = "idle" /\ sf_auth.token_lock
             THEN /\ threads' = [threads EXCEPT ![t].pc = "waiting"]
                  /\ UNCHANGED sf_auth
             ELSE /\ sf_auth' = [sf_auth EXCEPT !.token_lock = TRUE]
                  /\ threads' = [threads EXCEPT ![t].pc = "requesting"]
       \/ /\ threads[t].pc = "requesting"
          /\ \E ok \in BOOLEAN :
                sf_auth' = [access_token |-> ok \/ sf_auth.access_token,
                            token_lock |-> FALSE]
          /\ threads' = [threads EXCEPT ![t].pc = "idle"]
    /\ UNCHANGED <<rate_limiter, now, variant, user_states, user_session_state,
                   contacts, channel_users, sessions, last>>

\* a middleware that admits one request more than the limit
security_middleware_off_by_one(ip, path) ==
    LET Recent(ts, cutoff) == SelectSeq(ts, LAMBDA x : x > cutoff)
        cleaned == IF now - rate_limiter.last_cleanup > 60
                   THEN [requests |-> [i \in ClientIPs |->
                                          Recent(rate_limiter.requests[i], now - 60)],
                         last_cleanup |-> now]
                   ELSE rate_limiter
        mine == Recent(cleaned.requests[ip], now - 60)
    IN  /\ variant = "app"
        /\ IF path \in {"/health", "/", "/test", "/metrics"}
           THEN /\ last' = [last EXCEPT !.kind = "http", !.data = ip, !.route = path,
                                        !.sent = <<>>]
                /\ UNCHANGED rate_limiter
           ELSE IF Len(mine) > RATE_LIMIT_PER_MINUTE
           THEN /\ last' = [last EXCEPT !.kind = "http", !.data = ip, !.route = path,
                                        !.sent = <<Msg("rate_limit_exceeded")>>]
                /\ rate_limiter' = [cleaned EXCEPT !.requests[ip] = mine]
           ELSE /\ last' = [last EXCEPT !.kind = "http", !.data = ip, !.route = path,
                                        !.sent = <<>>,
                                        !.writes = Append(
                                            SelectSeq(@, LAMBDA w : w.at >= now - 60),
                                            [op |-> "admitted", ip |-> ip, at |-> now])]
                /\ rate_limiter' = [cleaned EXCEPT !.requests[ip] = Append(mine, now)]
        /\ UNCHANGED <<sf_auth, now, threads, variant, user_states, user_session_state,
                       contacts, channel_users, sessions>>

\* app.py security_middleware with RateLimiter.is_rate_limited and
\* _cleanup_old_requests (rate limiting enabled).  An ip without an entry and
\* an ip with an empty list are the same to the code.  The log keeps the
\* ip, the path, the 429 answer and the requests admitted in the last 60
\* seconds, the one exactly 60 seconds ago included.
security_middleware(ip, path) ==
    LET Recent(ts, cutoff) == SelectSeq(ts, LAMBDA x : x > cutoff)
        cleaned == IF now - rate_limiter.last_cleanup > 60
                   THEN [requests |-> [i \in ClientIPs |->
                                          Recent(rate_limiter.requests[i], now - 60)],
                         last_cleanup |-> now]
                   ELSE rate_limiter
        mine == Recent(cleaned.requests[ip], now - 60)
    IN  /\ variant = "app"
        /\ IF path \in {"/health", "/", "/test", "/metrics"}
           THEN /\ last' = [last EXCEPT !.kind = "http", !.data = ip, !.route = path,
                                        !.sent = <<>>]
                /\ UNCHANGED rate_limiter
           ELSE IF Len(mine) >= RATE_LIMIT_PER_MINUTE
           THEN /\ last' = [last EXCEPT !.kind = "http", !.data = ip, !.route = path,
                                        !.sent = <<Msg("rate_limit_exceeded")>>]
                /\ rate_limiter' = [cleaned EXCEPT !.requests[ip] = mine]
           ELSE /\ last' = [last EXCEPT !.kind = "http", !.data = ip, !.route = path,
                                        !.sent = <<>>,
                                        !.writes = Append(
                                            SelectSeq(@, LAMBDA w : w.at >= now - 60),
                                            [op |-> "admitted", ip |-> ip, at |-> now])]
                /\ rate_limiter' = [cleaned EXCEPT !.requests[ip] = Append(mine, now)]
        /\ UNCHANGED <<sf_auth, now, threads, variant, user_states, user_session_state,
                       contacts, channel_users, sessions>>

\* time.time() moves on; the cached token may come within 300 seconds of its
\* expiry
TimePasses(d) ==
    /\ now + d <= MaxTime
    /\ now' = now + d
    /\ \E valid \in {sf_auth.access_token, FALSE} :
          sf_auth' = [sf_auth EXCEPT !.access_token = valid]
    /\ UNCHANGED <<rate_limiter, threads, variant, user_states, user_session_state,
                   contacts, channel_users, sessions, last>>

InitServer == Init /\ variant = "app"

\* the threads that ask for the CRM token
NextAuth ==
    \/ \E t \in 1..MaxThreads : get_access_token(t)
    \/ \E d \in {20, 40} : TimePasses(d)

SpecAuth == InitServer /\ [][NextAuth]_vars

\* the requests that pass the middleware
NextLimiter ==
    \/ \E ip \in ClientIPs, path \in {"/webhook", "/health", "/", "/test", "/metrics"} :
          security_middleware(ip, path)
    \/ \E d \in {20, 40} : TimePasses(d)

SpecLimiter == InitServer /\ [][NextLimiter]_vars

----------------------------------------------------------------------------
(* Vocabulary of the properties *)

\* spec 4.2: the phone normalization contract
NormalizedPhone(t) ==
    LET d == DigitsOnly(t)
        d2 == IF StartsWith(d, <<"2", "5", "1">>) THEN SubSeq(d, 4, Len(d)) ELSE d
    IN  IF StartsWith(d2, <<"0">>) THEN d2 ELSE <<"0">> \o d2

\* the routes that belong to the registration flow
RegistrationRoutes ==
    {"registration_flow", "new_registration", "link_contact", "link_contact_email",
     "email_unknown", "identifier_prompt",
     "registration_start", "registration_phone", "registration_prompt", "cb_registration"}

\* the routes app.py takes for a registered chat without a session
NoSessionRoutes == {"menu", "track", "new_session", "auto_session", "idle_menu"}

\* the session ids the CRM reported during the last request
ReportedSessions == {last.queries[i] : i \in DOMAIN last.queries} \ {0}

\* the last request wrote (or tried to write) a record of this kind
Wrote(op) == \E i \in DOMAIN last.writes : last.writes[i].op = op

\* the last request sent a message of this kind
Sent(kind) == \E i \in DOMAIN last.sent : last.sent[i].kind = kind

\* the text of the last request is a phone number the running router recognizes
RecognizedPhone ==
    IF variant = "File" THEN is_phone_number_File(last.text)
    ELSE is_phone_number_app(sanitize_input(last.text))

\* the CRM holds a Contact with the normalized phone of the last request
PhoneHasRecord ==
    \E i \in DOMAIN contacts : contacts[i].phone = NormalizedPhone(last.text)

\* the last request is a text message of an unregistered chat without
\* registration state that carries a recognized phone number
PhoneFromNewChat ==
    /\ last.kind = "message"
    /\ ~last.registered
    /\ last.state0 = NoState
    /\ RecognizedPhone

\* the last request found the session cache claiming a session while the first
\* session query of the request reported none
StaleCacheSeen ==
    /\ last.lookup = "found"
    /\ last.cache0.kind = "in_session"
    /\ last.queries # <<>>
    /\ last.queries[1] = 0

----------------------------------------------------------------------------
(* Properties of the identity resolver *)

\* C1: a failed CRM lookup of the chat identity is never handled as if the
\* chat were unregistered: no request whose lookup failed takes a route of the
\* registration flow.
C1_FailedLookupNotUnregistered ==
    last.lookup = "failed" => last.route \notin RegistrationRoutes

\* C2: a request whose identity lookup failed attempts no CRM write and leaves
\* the chat's registration state and session cache entry as they were.
C2_FailedLookupNoWriteNoMutation ==
    last.lookup = "failed" =>
        /\ last.writes = <<>>
        /\ user_states[last.chat] = last.state0
        /\ user_session_state[last.chat] = last.cache0

\* C3: a message of a chat that has a CRM record bound to it, and whose lookup
\* returned that record, never takes a route of the registration flow.
C3_RegisteredNeverReentersRegistration ==
    (last.kind = "message" /\ last.registered /\ last.lookup = "found") =>
        last.route \notin RegistrationRoutes

----------------------------------------------------------------------------
(* Properties of the conversation router *)

\* the CRM held an Active or Waiting session (File.py: thread) for the chat of
\* the last request
SessionOpenAtRequest ==
    IF variant = "File"
    THEN last.thread \in {"ActiveAssigned", "ActiveUnassigned", "Waiting for Agent"}
    ELSE last.queries # <<>> /\ last.queries[1] # 0

\* C4: for a registered chat with an Active or Waiting session, the message
\* "menu" is answered with the menu and is not forwarded to the CRM.
C4_MenuPreemptsForwarding ==
    (/\ last.kind = "message"
     /\ last.lookup = "found"
     /\ Lower(Strip(last.text)) = T_menu
     /\ SessionOpenAtRequest) =>
        /\ ~Wrote("forward")
        /\ Sent("main_menu") \/ Sent("session_menu")

\* C5: when a text message finds the cache claiming a session and the CRM
\* reports none, the same request takes a route of a chat without a session,
\* forwards nothing to a session the CRM did not report during the request,
\* and leaves a cache entry that is empty or names a session reported during
\* the request.
C5_CacheSelfHeal ==
    (last.kind = "message" /\ StaleCacheSeen) =>
        /\ last.route \in NoSessionRoutes
        /\ \A i \in DOMAIN last.writes :
              last.writes[i].op = "forward" => last.writes[i].session \in ReportedSessions
        /\ \/ user_session_state[last.chat] = EmptyEntry
           \/ /\ user_session_state[last.chat].kind = "in_session"
              /\ user_session_state[last.chat].session_id \in ReportedSessions

\* the cached session was closed in the CRM; a short message met the stale
\* entry, which was discarded, and the menu of a chat without a session was shown
C5_Witness ==
    /\ last.kind = "message"
    /\ StaleCacheSeen
    /\ sessions[last.cache0.session_id].status = "Closed"
    /\ last.route = "idle_menu"
    /\ user_session_state[last.chat] = EmptyEntry
    /\ last.sent = <<Msg("main_menu")>>

\* C6: after a text message or a button press of a registered chat whose
\* conversation has no Active/Waiting session in the CRM, and during which
\* every session query reported none, the chat's cache entry does not claim a
\* session.
C6_NoStalePositiveKept ==
    (/\ last.kind \in {"message", "callback"}
     /\ last.lookup = "found"
     /\ last.queries # <<>>
     /\ ReportedSessions = {}
     /\ OpenSessions(sessions, last.chat) = {}) =>
        user_session_state[last.chat].kind # "in_session"

----------------------------------------------------------------------------
(* Properties of the registration flow *)

\* spec 4.2: the input is not valid for the step the chat is at
InvalidForStep(state, t) ==
    \/ state.step = "gender" /\ Lower(t) \notin {W_male, W_female}
    \/ state.step = "name" /\ TokenCount(t) < 2

\* C7: a message that is invalid for the registration step of its chat leaves
\* the chat's registration state (step, phone, gender) unchanged, attempts no
\* CRM write and re-prompts the same step.
C7_InvalidInputKeepsStep ==
    (/\ last.route = "registration_flow"
     /\ last.state0.type = "registration"
     /\ InvalidForStep(last.state0, last.text)) =>
        /\ user_states[last.chat] = last.state0
        /\ last.writes = <<>>
        /\ last.sent = <<IF last.state0.step = "gender" THEN Msg("gender_prompt")
                                                         ELSE Msg("name_reprompt")>>

\* one step of one chat's registration state never goes backward
StepForward(c) ==
    /\ user_states[c].step = "gender" =>
          /\ user_states'[c].type = "registration"
          /\ user_states'[c].step \in {"gender", "name"}
          /\ user_states'[c].phone = user_states[c].phone
    /\ user_states[c].step = "name" =>
          \/ user_states'[c] = user_states[c]
          \/ user_states'[c] = NoState /\ last'.chat = c /\ last'.writes # <<>>
             /\ last'.writes[1].op = "create_contact"

\* C8: no step of the system moves a chat's registration step from the name
\* step back to the gender step, or from either step back to the identifier
\* step; the state is cleared only from the name step, by a request that
\* created the record.
C8_StepsOnlyForward == [][\A c \in Chats : StepForward(c)]_vars

\* a chat at the name step sent a gender word and stayed at the name step
C8_Witness ==
    /\ last.kind = "message"
    /\ last.state0.step = "name"
    /\ last.text = T_Male
    /\ user_states[last.chat] = last.state0

C10_KnownPhoneLinksRecord ==
    (PhoneFromNewChat /\ PhoneHasRecord) =>
        /\ Wrote("update_contact")
        /\ user_states[last.chat] = NoState
        /\ ~Wrote("create_contact")
        /\ ~Wrote("create_channel_user")
        /\ ~Wrote("create_conversation")

\* the last request is a message handled by the registration flow for a chat
\* that was at this step
AtStep(step) ==
    /\ last.kind = "message"
    /\ last.route = "registration_flow"
    /\ last.state0.type = "registration"
    /\ last.state0.step = step

\* C11: at the gender step the words "male" and "female", in any letter case,
\* move the chat to the name step with the gender stored (and the phone kept),
\* the name prompt is sent and no CRM write is attempted.
C11_GenderWordAdvances ==
    (AtStep("gender") /\ Lower(last.text) \in {W_male, W_female}) =>
        /\ user_states[last.chat] =
              RegState("name", last.state0.phone, Lower(last.text))
        /\ last.sent = <<Msg("name_prompt")>>
        /\ last.writes = <<>>

\* a chat at the gender step sent "FEMALE" and is now at the name step
C11_Witness ==
    /\ AtStep("gender")
    /\ last.text = T_FEMALE
    /\ user_states[last.chat].step = "name"
    /\ user_states[last.chat].gender = W_female
    /\ last.sent = <<Msg("name_prompt")>>

\* C12: at the name step an input of two or more whitespace-separated tokens
\* makes exactly one create-record request, whose first name is the first
\* token, whose last name is the other tokens joined by one space, and whose
\* phone and gender are the ones stored in the chat's registration state.
C12_NameCreatesRecord ==
    LET RECURSIVE Tokens(_)
        Tokens(s) ==
            LET r == LStrip(s) IN
            IF r = <<>> THEN <<>>
            ELSE LET ends == {k \in 1..Len(r) : r[k] \in Whitespace}
                     n == IF ends = {} THEN Len(r) + 1
                          ELSE CHOOSE k \in ends : \A j \in ends : k <= j
                 IN  <<SubSeq(r, 1, n - 1)>> \o Tokens(SubSeq(r, n, Len(r)))
        RECURSIVE Joined(_)
        Joined(ts) ==
            IF ts = <<>> THEN <<>>
            ELSE IF Len(ts) = 1 THEN ts[1]
            ELSE ts[1] \o <<" ">> \o Joined(Tail(ts))
    IN  (AtStep("name") /\ TokenCount(last.text) >= 2) =>
            /\ Len(last.writes) = 1
            /\ last.writes[1].op = "create_contact"
            /\ last.writes[1].first_name = Tokens(last.text)[1]
            /\ last.writes[1].last_name = Joined(Tail(Tokens(last.text)))
            /\ last.writes[1].phone = last.state0.phone
            /\ last.writes[1].gender = last.state0.gender

\* C13: at the name step an input of fewer than two whitespace-separated
\* tokens makes no create-record request, leaves the chat at the name step and
\* repeats the name prompt.
C13_ShortNameNeverCreates ==
    (AtStep("name") /\ TokenCount(last.text) < 2) =>
        /\ ~Wrote("create_contact")
        /\ user_states[last.chat] = last.state0
        /\ last.sent = <<Msg("name_reprompt")>>

\* C14: when the create-record request of the name step returns the new id,
\* the chat's registration state is removed and the main menu is shown.
C14_CreatedClearsStateShowsMenu ==
    (/\ AtStep("name")
     /\ last.writes # <<>>
     /\ last.writes[1].op = "create_contact"
     /\ last.writes[1].ok) =>
        /\ user_states[last.chat] = NoState
        /\ last.sent = <<Msg("main_menu")>>

\* C15: when the create-record request of the name step returns no id, the
\* retry prompt is sent and the chat's registration state (name step, phone,
\* gender) is left as it was.
C15_CreateFailureKeepsState ==
    (/\ AtStep("name")
     /\ last.writes # <<>>
     /\ last.writes[1].op = "create_contact"
     /\ ~last.writes[1].ok) =>
        /\ user_states[last.chat] = last.state0
        /\ last.sent = <<Msg("create_error")>>

\* a valid name was sent, the create request failed, and the chat is still at
\* the name step with its phone and gender
C15_Witness ==
    /\ AtStep("name")
    /\ last.text = T_name_two
    /\ last.writes # <<>>
    /\ last.writes[1].op = "create_contact"
    /\ ~last.writes[1].ok
    /\ user_states[last.chat].step = "name"
    /\ user_states[last.chat].phone # <<>>
    /\ user_states[last.chat].gender \in {W_male, W_female}
    /\ last.sent = <<Msg("create_error")>>

----------------------------------------------------------------------------
(* Properties of the dispatch of app.py for a registered chat *)

\* the last request is a text message of a chat whose channel user and
\* conversation were found, and its text is neither a menu command, nor one of
\* the text commands, nor the answer to a pending confirmation
FreeText ==
    LET safe_message == sanitize_input(last.text)
        message_lower == Lower(Strip(safe_message))
    IN  /\ last.kind = "message"
        /\ last.lookup = "found"
        /\ last.queries # <<>>
        /\ ~is_menu_command(safe_message)
        /\ message_lower \notin
              W_contact_words \cup W_track_words \cup W_new_words \cup W_menu_words
        /\ ~(last.cache0.kind = "awaiting" /\ message_lower \in {T_yes, T_no})

\* C16: when the CRM reports an Active/Waiting session each time the request
\* asks for it, a free-text message is forwarded once, with the chat's
\* conversation and the id of the session the CRM reports (whatever id the
\* cache held), the cache is set to that session, and one confirmation is
\* sent: "delivered" when the forward succeeded, "failed to send" otherwise.
C16_ForwardsToReportedSession ==
    (FreeText /\ \A i \in DOMAIN last.queries : last.queries[i] # 0) =>
        /\ Len(last.writes) = 1
        /\ last.writes[1].op = "forward"
        /\ last.writes[1].chat = last.chat
        /\ last.writes[1].text = sanitize_input(last.text)
        /\ last.writes[1].session = get_active_sessions(sessions, last.chat, TRUE)
        /\ user_session_state[last.chat] =
              InSession(last.writes[1].session, sessions[last.writes[1].session].status)
        /\ Len(last.sent) = 1
        /\ last.sent[1].kind = IF last.writes[1].ok THEN "delivered" ELSE "failed_to_send"

\* the cache named a session that is closed by now; the message went to the
\* other session, the one the CRM reported
C16_Witness ==
    /\ FreeText
    /\ last.cache0.kind = "in_session"
    /\ sessions[last.cache0.session_id].status = "Closed"
    /\ Len(last.writes) = 1
    /\ last.writes[1].op = "forward"
    /\ last.writes[1].ok
    /\ last.writes[1].session # last.cache0.session_id
    /\ last.sent[1].kind = "delivered"

\* C17: when a message was forwarded successfully into a Waiting session and
\* the router obtained a queue position for the confirmation, the confirmation
\* quotes that position.
C17_ConfirmationQuotesPosition ==
    \A i \in DOMAIN last.sent :
        (/\ last.kind = "message"
         /\ last.sent[i].kind \in {"delivered", "delivered_queue"}
         /\ \E j \in DOMAIN last.writes :
               /\ last.writes[j].op = "forward"
               /\ last.writes[j].ok
               /\ sessions[last.writes[j].session].status = "Waiting"
         /\ last.sent[i].queue_position # 0) =>
            last.sent[i].pos = last.sent[i].queue_position

\* C18: when the CRM reports no session, a free-text message that is
\* support-like makes the router request a new session; if the request is
\* accepted and the poll returns the session, the same message is forwarded
\* into it, the cache is set to it as Waiting, and the replies (the
\* session-created notice and, after a successful forward, the delivery
\* confirmation) quote the queue position the router obtained.  If the request
\* is rejected or the poll returns nothing, nothing is forwarded.
C18_SupportLikeStartsSession ==
    LET safe_message == sanitize_input(last.text)
        message_lower == Lower(Strip(safe_message))
        looks_like_support ==
            \/ Len(safe_message) > 20
            \/ Contains(safe_message, <<"?">>)
            \/ Contains(message_lower, <<"h", "e", "l", "p">>)
            \/ Contains(message_lower, <<"i", "s", "s", "u", "e">>)
            \/ Contains(message_lower, <<"p", "r", "o", "b", "l", "e", "m">>)
    IN  (/\ FreeText
         /\ looks_like_support
         /\ last.queries[1] = 0
         /\ Len(last.queries) >= 2 => last.queries[2] = 0) =>
            /\ Len(last.queries) >= 2
            /\ last.writes # <<>>
            /\ last.writes[1].op = "create_session"
            /\ last.writes[1].chat = last.chat
            /\ IF last.writes[1].ok /\ Len(last.queries) = 3 /\ last.queries[3] # 0
               THEN /\ Len(last.writes) = 2
                    /\ last.writes[2].op = "forward"
                    /\ last.writes[2].chat = last.chat
                    /\ last.writes[2].text = safe_message
                    /\ last.writes[2].session = last.queries[3]
                    /\ sessions[last.queries[3]].conv = last.chat
                    /\ user_session_state[last.chat] = InSession(last.queries[3], "Waiting")
                    /\ Len(last.sent) = 2
                    /\ last.sent[1].kind = "session_created"
                    /\ last.sent[1].pos = last.sent[1].queue_position
                    /\ last.sent[2].kind =
                          IF last.writes[2].ok THEN "delivered_queue" ELSE "failed_to_send"
                    /\ last.sent[2].pos = last.sent[2].queue_position
               ELSE /\ Len(last.writes) = 1
                    /\ Len(last.sent) = 1
                    /\ last.sent[1].kind \in {"session_create_failed", "session_not_retrieved"}

\* a question from a chat without a session: the session was created, the
\* question was forwarded into it and the confirmation quotes position 1
C18_Witness ==
    /\ FreeText
    /\ last.text = T_question
    /\ last.queries = <<0, 0, 1>>
    /\ Len(last.writes) = 2
    /\ last.writes[2].op = "forward"
    /\ last.writes[2].ok
    /\ last.writes[2].session = 1
    /\ last.sent[2] = MsgPos("delivered_queue", 1)

\* C19: when the CRM reports no session, a free-text message that is not
\* support-like is answered with the main menu (the one without the
\* continue-session option) and no CRM write, in particular no session
\* request, is made.
C19_ShortTextShowsMenu ==
    LET safe_message == sanitize_input(last.text)
        message_lower == Lower(Strip(safe_message))
        looks_like_support ==
            \/ Len(safe_message) > 20
            \/ Contains(safe_message, <<"?">>)
            \/ Contains(message_lower, <<"h", "e", "l", "p">>)
            \/ Contains(message_lower, <<"i", "s", "s", "u", "e">>)
            \/ Contains(message_lower, <<"p", "r", "o", "b", "l", "e", "m">>)
    IN  (FreeText /\ ~looks_like_support /\ last.queries[1] = 0) =>
            /\ last.sent = <<Msg("main_menu")>>
            /\ last.writes = <<>>
            /\ last.queries = <<0>>
            /\ user_session_state[last.chat].kind # "in_session"

\* "x" from a chat without a session and with an empty cache got the main menu
C19_Witness ==
    /\ FreeText
    /\ last.text = T_x
    /\ last.cache0 = EmptyEntry
    /\ last.queries = <<0>>
    /\ last.sent = <<Msg("main_menu")>>
    /\ last.writes = <<>>

\* C20: a menu command of a registered chat is answered with one menu and
\* nothing else: no CRM write, one session query, and the menu has the
\* continue-session option exactly when that query reported a session,
\* whatever the cache held.
C20_MenuCommandShowsMenuOnly ==
    (/\ last.kind = "message"
     /\ last.lookup = "found"
     /\ last.queries # <<>>
     /\ is_menu_command(sanitize_input(last.text))) =>
        /\ last.writes = <<>>
        /\ Len(last.queries) = 1
        /\ last.sent = <<IF last.queries[1] # 0 THEN Msg("session_menu")
                                                ELSE Msg("main_menu")>>

\* the cache was empty and the CRM reported a session: "menu" got the menu
\* with the continue-session option
C20_Witness ==
    /\ last.kind = "message"
    /\ last.lookup = "found"
    /\ last.text = T_menu
    /\ last.cache0 = EmptyEntry
    /\ last.queries # <<>>
    /\ last.queries[1] # 0
    /\ last.sent = <<Msg("session_menu")>>
    /\ last.writes = <<>>

----------------------------------------------------------------------------
(* Properties of the session lifecycle *)

\* C21: a request whose session-start call was accepted by the CRM asks for
\* the session list once before the call (the answer was empty) and exactly
\* once after it; when that poll returns no session the user is told that the
\* session could not be retrieved, nothing is forwarded, and the chat's cache
\* entry is left as it was or empty, never set to in_session.
C21_PollsOnceThenGivesUp ==
    LET before == IF last.kind = "message" \/ last.data = "new_session" THEN 1 ELSE 0
        n == Len(last.queries)
    IN  (\E j \in DOMAIN last.writes :
            last.writes[j].op = "create_session" /\ last.writes[j].ok) =>
            /\ n = before + 2
            /\ last.queries[n - 1] = 0
            /\ last.queries[n] = 0 =>
                  /\ last.sent = <<Msg("session_not_retrieved")>>
                  /\ ~Wrote("forward")
                  /\ user_session_state[last.chat] \in {last.cache0, EmptyEntry}
                  /\ user_session_state[last.chat].kind = "in_session" =>
                        user_session_state[last.chat] = last.cache0

\* the CRM accepted the start request of a chat with an empty cache, the poll
\* returned nothing, and the chat was told so
C21_Witness ==
    /\ last.kind = "callback"
    /\ last.data = "contact_support"
    /\ last.cache0 = EmptyEntry
    /\ last.writes = <<[op |-> "create_session", chat |-> last.chat, ok |-> TRUE]>>
    /\ last.queries = <<0, 0>>
    /\ last.sent = <<Msg("session_not_retrieved")>>
    /\ user_session_state[last.chat] = EmptyEntry

-----------------------------------------------------------------------------
(* Properties of the queue position *)

\* C22: the position reported for a conversation is k exactly when the
\* conversation's Waiting session (the newest one, if it has several) is the
\* k-th, counted from 1 in creation order, among all Waiting sessions owned by
\* the intake queue, whichever conversation owns the others; nothing is
\* reported when the conversation has no Waiting session. A failed query
\* reports nothing.
C22_QueuePositionIsGlobalRank ==
    last.kind = "queue_position" =>
        LET c == last.chat
            reported == last.sent[1].pos
            mine == {i \in DOMAIN sessions :
                        sessions[i].conv = c /\ sessions[i].status = "Waiting"}
            InQueue(i) == sessions[i].status = "Waiting" /\ sessions[i].owner = "queue"
            ahead(s) == {i \in 1..(s - 1) : InQueue(i)}
        IN  /\ mine = {} => reported = 0
            /\ reported # 0 =>
                  /\ mine # {}
                  /\ InQueue(Max(mine))
                  /\ reported = Cardinality(ahead(Max(mine))) + 1
            /\ (last.lookup = "found" /\ mine # {} /\ InQueue(Max(mine))) =>
                  reported = Cardinality(ahead(Max(mine))) + 1

\* the only session of chat 1 is second in the queue behind a session of chat 2
C22_Witness ==
    /\ last.kind = "queue_position"
    /\ last.chat = 1
    /\ Len(sessions) = 2
    /\ sessions[1] = [conv |-> 2, status |-> "Waiting", owner |-> "queue"]
    /\ sessions[2] = [conv |-> 1, status |-> "Waiting", owner |-> "queue"]
    /\ last.sent = <<MsgPos("queue_position", 2)>>

\* C23: the queue position follows the creation order: of the sessions that
\* wait in the intake queue, one created earlier has a strictly smaller
\* position than one created later, and the position reported to a
\* conversation lies strictly between those of the sessions before and after
\* its own.
C23_PositionFollowsCreationOrder ==
    LET queue == {i \in DOMAIN sessions :
                    sessions[i].status = "Waiting" /\ sessions[i].owner = "queue"}
    IN  /\ \A s1, s2 \in queue :
              s1 < s2 => /\ queue_rank(sessions, s1) >= 1
                         /\ queue_rank(sessions, s1) < queue_rank(sessions, s2)
        /\ (last.kind = "queue_position" /\ last.sent[1].pos # 0) =>
              LET mine == {i \in queue : sessions[i].conv = last.chat}
              IN  \A s \in queue :
                     /\ s < Max(mine) => queue_rank(sessions, s) < last.sent[1].pos
                     /\ s > Max(mine) => queue_rank(sessions, s) > last.sent[1].pos

\* three sessions wait in the queue and the middle one is told position 2
C23_Witness ==
    /\ last.kind = "queue_position"
    /\ last.chat = 1
    /\ Len(sessions) = 3
    /\ \A i \in 1..3 : sessions[i].status = "Waiting" /\ sessions[i].owner = "queue"
    /\ sessions[1].conv = 2 /\ sessions[2].conv = 1 /\ sessions[3].conv = 2
    /\ queue_rank(sessions, 1) = 1
    /\ last.sent = <<MsgPos("queue_position", 2)>>
    /\ queue_rank(sessions, 3) = 3

-----------------------------------------------------------------------------
(* Properties of the phone normalization *)

\* C24: on every text that matches ^(\+?251|0)?[97]\d{8}$ (surrounding blanks
\* aside) normalizing twice gives what normalizing once gives, for
\* clean_phone_number of File.py and for sanitize_phone_number of app.py.
C24_NormalizationIdempotent ==
    (last.kind = "normalize" /\ MatchesPhonePattern(Strip(last.text))) =>
        /\ last.writes[1].phone # <<>>
        /\ last.writes[2].phone = last.writes[1].phone

\* "+251911111111" is normalized to "0911111111" and stays there
C24_Witness ==
    /\ last.kind = "normalize"
    /\ variant = "File"
    /\ last.text = T_phoneA_intl
    /\ last.writes[1].phone = NormPhoneA
    /\ last.writes[2].phone = NormPhoneA

\* C25: on every text the phone pattern recognizes, both normalizers return
\* the reference value: the digits of the text, without a leading "251", with
\* a "0" in front unless one is there already.
C25_NormalizationEqualsReference ==
    (/\ last.kind = "normalize"
     /\ \/ MatchesPhonePattern(Strip(last.text))
        \/ variant = "app" /\ is_phone_number_app(last.text)) =>
        /\ last.writes[1].phone = NormalizedPhone(last.text)
        /\ MatchesLocalMobile(last.writes[1].phone)

\* the hardened normalizer turns "251721111111" into "0721111111"
C25_Witness ==
    /\ last.kind = "normalize"
    /\ variant = "app"
    /\ last.text = <<"2", "5", "1", "7", "2", "1", "1", "1", "1", "1", "1", "1">>
    /\ last.writes[1].phone = <<"0", "7", "2", "1", "1", "1", "1", "1", "1", "1">>

\* C26: in app.py a number that does not match 0[79]\d{8} after normalization
\* is invalid: sanitize_phone_number returns the empty result, is_phone_number
\* is false, and a chat that sends it is asked for its phone number again with
\* no CRM lookup and no record created; every non-empty result of the
\* normalizer matches 0[79]\d{8}.
C26_InvalidNumberRejected ==
    variant = "app" =>
        /\ last.kind = "normalize" =>
              /\ last.writes[1].phone # <<>> => MatchesLocalMobile(last.writes[1].phone)
              /\ ~MatchesLocalMobile(NormalizedPhone(last.text)) =>
                    /\ last.writes[1].phone = <<>>
                    /\ ~is_phone_number_app(last.text)
        /\ (/\ last.kind = "message"
            /\ ~last.registered
            /\ ~MatchesLocalMobile(NormalizedPhone(last.text))
            /\ Lower(Strip(last.text)) # T_start) =>
              /\ last.route = "registration_prompt"
              /\ last.writes = <<>>
              /\ last.sent = <<Msg("phone_prompt")>>
              /\ contacts = <<[phone |-> NormPhoneA, email |-> EmailA, chat |-> NoChat]>>
              /\ channel_users[last.chat] = "none"

\* "0811111111" is sent by an unknown chat and answered with the phone prompt
C26_Witness ==
    /\ variant = "app"
    /\ last.kind = "message"
    /\ last.text = <<"0", "8", "1", "1", "1", "1", "1", "1", "1", "1">>
    /\ last.route = "registration_prompt"
    /\ last.writes = <<>>
    /\ last.sent = <<Msg("phone_prompt")>>

-----------------------------------------------------------------------------
(* Properties of the failure handling *)

\* C27: for a chat with a channel user, a CRM failure while the conversation
\* or the session list is fetched ends in the menu: when the conversation has
\* an Active or Waiting session and the first session lookup of the request
\* reports none (the lookup failed), the request issues no session-creation
\* request, leaves a cache entry that names such a session as it was, and
\* shows the menu; when the conversation is not retrieved the menu is shown
\* and nothing is written.
C27_FailedLookupDegradesToMenu ==
    (last.kind = "message" /\ variant = "app" /\ last.lookup = "found") =>
        LET c == last.chat
            existing == {i \in DOMAIN sessions :
                            /\ sessions[i].conv = c
                            /\ sessions[i].status \in {"Waiting", "Active"}
                            /\ Wrote("create_session") => i < Len(sessions)}
        IN  /\ last.route = "no_conversation_menu" =>
                  /\ last.sent = <<Msg("main_menu")>>
                  /\ last.writes = <<>>
                  /\ user_session_state[c] = last.cache0
            /\ (last.queries # <<>> /\ last.queries[1] = 0 /\ existing # {}) =>
                  /\ ~Wrote("create_session")
                  /\ (last.cache0.kind = "in_session"
                      /\ last.cache0.session_id \in existing) =>
                        user_session_state[c] = last.cache0
                  /\ Sent("main_menu") \/ Sent("session_menu")

\* C28: every text message the router accepts ends with at least one outbound
\* message to the chat that sent it, whatever the CRM answers, and the request
\* comes to its end.
C28_EveryMessageAnswered ==
    last.kind = "message" =>
        /\ last.sent # <<>>
        /\ last.route # "error"

-----------------------------------------------------------------------------
(* Properties of the shared maps *)

\* C29: handling a message or a callback of chat A changes neither the
\* registration state (user_states) nor the session cache entry
\* (user_session_state) of any other chat B.
C29_OtherChatsUntouched ==
    [][(last = NoRequest /\ last'.kind \in {"message", "callback"}) =>
          \A b \in Chats \ {last'.chat} :
             /\ user_states'[b] = user_states[b]
             /\ user_session_state'[b] = user_session_state[b]]_vars

\* a request of chat 1 changed its own entry while chat 2 holds one
C29_Witness ==
    /\ last.kind \in {"message", "callback"}
    /\ last.chat = 1
    /\ \/ /\ variant = "app"
          /\ user_session_state[1] # last.cache0
          /\ user_session_state[2] # EmptyEntry
       \/ /\ variant = "File"
          /\ user_states[1] # last.state0
          /\ user_states[2] # NoState

-----------------------------------------------------------------------------
(* Properties of overlapping requests *)

\* C30: when two threads handle messages of the same chat at the same time,
\* the chat had no session when either began and every CRM call of both was
\* answered, at most one of them issues a session-creation request, and once
\* both are through the cache entry of the chat names the newest open session
\* of its conversation.
C30_ConcurrentMessagesCreateOnce ==
    \A t1, t2 \in DOMAIN threads :
        (/\ t1 # t2
         /\ threads[t1].chat = threads[t2].chat
         /\ threads[t1].chat # NoChat
         /\ t2 \in threads[t1].with /\ t1 \in threads[t2].with
         /\ threads[t1].none0 /\ threads[t2].none0
         /\ threads[t1].crm_ok /\ threads[t2].crm_ok) =>
            /\ ~(threads[t1].requested /\ threads[t2].requested)
            /\ (/\ threads[t1].pc = "idle" /\ threads[t2].pc = "idle"
                /\ threads[t1].sid # 0 /\ threads[t2].sid # 0
                /\ OpenSessions(sessions, threads[t1].chat) # {}) =>
                  user_session_state[threads[t1].chat].session_id =
                      Max(OpenSessions(sessions, threads[t1].chat))

-----------------------------------------------------------------------------
(* Properties of the handlers as their texts and names describe them *)

\* C31: when the user confirms "Do you want to end the current session and
\* start a new one?" (button confirm_new_session, or the text "yes" while a
\* confirmation is pending), the session the conversation had is ended and a
\* session-creation request is sent to the CRM.
C31_ConfirmEndsAndCreates ==
    (/\ variant = "app"
     /\ last.route \in {"cb_confirm_new", "confirm_yes"}) =>
        /\ Wrote("create_session")
        /\ last.queries[1] # 0 => sessions[last.queries[1]].status = "Closed"

-----------------------------------------------------------------------------
(* Properties of the shared objects of the server *)

\* C32: the token lock keeps the token requests apart: at most one thread has
\* a token request in flight, and the lock stays set as long as a request is
\* in flight (no thread clears it under another thread's request).
C32_TokenLockExcludes ==
    LET in_flight == {t \in DOMAIN threads : threads[t].pc = "requesting"}
    IN  /\ Cardinality(in_flight) <= 1
        /\ in_flight # {} => sf_auth.token_lock

-----------------------------------------------------------------------------
(* Properties of the outbound calls *)

\* C34: send_message ends after at most 3 HTTP attempts and returns True or
\* False: True exactly when an attempt it made was answered ok, and False
\* when its last attempt failed, be it by an exception, by a rate-limit reply
\* or by another error reply; every attempt before the last one failed.
C34_SendMessageBounded ==
    last.kind = "send_message" =>
        LET attempts == last.queries[1]
            replies == last.text
        IN  /\ attempts <= 3
            /\ last.data \in {"True", "False"}
            /\ last.data = "True" <=>
                  /\ last.registered
                  /\ \E k \in 1..attempts : replies[k] = "ok"
            /\ \A k \in 1..(attempts - 1) : replies[k] # "ok"
            /\ (attempts >= 1 /\ replies[attempts] # "ok") => last.data = "False"
            /\ (last.registered /\ \A k \in 1..3 : replies[k] \in {"retry_after", "exception"})
                  => attempts = 3 /\ last.data = "False"

\* a timeout, a rate-limit reply and another timeout: False after 3 attempts,
\* although the fourth reply held ready is ok
C34_Witness ==
    /\ last.kind = "send_message"
    /\ last.registered
    /\ last.text = <<"exception", "retry_after", "exception", "ok">>
    /\ last.queries = <<3>>
    /\ last.data = "False"

-----------------------------------------------------------------------------
(* Properties of the buttons and the confirmations *)

\* C35: after every recognized button selection that handle_callback_query
\* handles for a chat with a channel user and a conversation, an
\* edit-reply-markup request is sent that removes the buttons of the message.
C35_ButtonsRemovedAfterSelection ==
    (/\ variant = "app"
     /\ last.kind = "callback"
     /\ last.route \notin {"cb_registration", "cb_no_conversation"}
     /\ last.data \in CallbackData \ {"other", "register_phone"}) =>
        Sent("edit_reply_markup")

\* C36: a positive delivery confirmation (message delivered, sent to agent,
\* request received) is sent only when the forward of the message to the CRM
\* succeeded, and when the forward fails the user is told that the message
\* was not sent.
C36_ConfirmationOnlyAfterForward ==
    last.kind = "message" =>
        LET forwards == {j \in DOMAIN last.writes :
                            last.writes[j].op = "forward" /\ last.writes[j].text = last.text}
            positive == {"delivered", "delivered_queue", "sent_to_agent", "request_received"}
        IN  /\ (\E i \in DOMAIN last.sent : last.sent[i].kind \in positive) =>
                  \E j \in forwards : last.writes[j].ok
            /\ (\E j \in forwards : ~last.writes[j].ok) => Sent("failed_to_send")


(***************************************************************************)
(* Properties of the registration and the session cache                    *)
(***************************************************************************)

\* C37: whenever the registration of app.py reports success to the user
\* ("Registration Successful" or "Welcome back"), the chat has a channel user
\* with an Active support conversation, which a later support request finds.
C37_RegistrationSuccessHasConversation ==
    (/\ variant = "app"
     /\ last.route = "registration_phone"
     /\ Sent("registration_successful") \/ Sent("welcome_back")) =>
        /\ channel_users[last.chat] = "active_conversation"
        /\ get_active_support_conversation(channel_users, last.chat, TRUE)


C39_CacheHoldsReportedSession ==
    (/\ variant = "app"
     /\ last # NoRequest
     /\ last.chat \in Chats
     /\ user_session_state[last.chat].kind = "in_session"
     /\ user_session_state[last.chat] # last.cache0) =>
        LET entry == user_session_state[last.chat]
        IN  /\ entry.session_id \in ReportedSessions
            /\ entry.session_status = sessions[entry.session_id].status

====
